---------------------------- MODULE Spec2Model ----------------------------
(***************************************************************************)
(* Onion Hoster: the service lifecycle of OnionServiceManager              *)
(* (src/src/core/onion_service.py) with the persisted configuration of     *)
(* ConfigManager (src/src/core/config_manager.py).                         *)
(*                                                                         *)
(* One caller thread issues the public operations of the manager one at a  *)
(* time; start_service is followed step by step (pc).  Every daemon        *)
(* process spawned by start_tor_manual has its own reader thread           *)
(* (monitor_bootstrap) which consumes output lines concurrently with the   *)
(* caller.  The outcome of every external command, the content of the      *)
(* site directory and the output of the daemon are chosen by the           *)
(* environment.                                                            *)
(***************************************************************************)
EXTENDS Integers, Sequences, FiniteSets, TLC

(***************************************************************************)
(* Bounds of the model.                                                    *)
(***************************************************************************)
\* events of one behaviour: the operations the caller starts and the output
\* lines the reader threads consume
MaxEvents == 3

(***************************************************************************)
(* Program constants.                                                      *)
(***************************************************************************)
NGINX_DEFAULT_PORT == 8080
HISTORY_CAP == 100
ERRORS_IN_MESSAGE == 3

NoAddr == "None"
NoDir == "None"
NoPct == 0 - 1

\* the address the daemon writes into <hidden_service_dir>/hostname
OnionAddr == "abc123.onion"

\* platforms of PLATFORM_PATHS that have service commands
Platforms == {"debian", "redhat", "termux"}

\* what the argument of start_service can be on disk
DirKinds == {"missing", "file", "noindex", "site"}

\* self._sudo_password is None
NoPassword == "None"

\* no proxy configuration text is followed
NotRendered == [port |-> 0, root |-> <<>>, log |-> <<>>, text |-> <<>>]

\* result of one command: exit code 0, non-zero exit code, or an exception
\* raised by the runner (TimeoutExpired, missing credential in GUI mode)
Outcomes == {"ok", "fail", "raise"}

(***************************************************************************)
(* Text of the daemon configuration file, as a sequence of tokens.  A path *)
(* is a sequence of tokens too, so that one path can be a proper substring *)
(* of another, as with Python's `in` on the file text.                     *)
(***************************************************************************)
HiddenServiceDirOf(pf) ==
    IF pf = "termux" THEN <<"~/.tor/", "hidden_service">>
    ELSE <<"/var/lib/tor/", "hidden_service">>

\* str(n) for n >= 0: the decimal digits of n
RECURSIVE DecimalText(_)
DecimalText(n) ==
    LET d == <<"0", "1", "2", "3", "4", "5", "6", "7", "8", "9">>[(n % 10) + 1]
    IN  IF n < 10 THEN <<d>> ELSE DecimalText(n \div 10) \o <<d>>

\* TOR_CONFIG_TEMPLATE.format(hidden_service_dir, nginx_port)
TorStanza(dir, port) ==
    <<"# Onion Hoster Hidden Service Configuration", "\n", "HiddenServiceDir", " ">>
    \o dir
    \o <<"\n", "HiddenServicePort", " ", "80", " ", "127.0.0.1:">>
    \o DecimalText(port) \o <<"\n">>

\* Python: pat in text
Contains(text, pat) ==
    \E i \in 0..(Len(text) - Len(pat)) :
        \A j \in 1..Len(pat) : text[i + j] = pat[j]

\* number of lines `HiddenServiceDir <dir>` of the text
StanzaCount(text, dir) ==
    LET pat == <<"HiddenServiceDir", " ">> \o dir \o <<"\n">>
    IN  Cardinality({i \in 0..(Len(text) - Len(pat)) :
                        \A j \in 1..Len(pat) : text[i + j] = pat[j]})

(***************************************************************************)
(* State.                                                                  *)
(***************************************************************************)
VARIABLES
    platform,       \* SystemDetector: the platform key
    watchdogAvailable, \* the watchdog package can be imported
    torInstalled,   \* is_tor_installed() as of the operation in progress
    nginxInstalled, \* is_nginx_installed() as of the operation in progress
    config,         \* ConfigManager.config (the persisted keys the core uses)
    torrc,          \* text of the daemon configuration file
    nginxRunning,   \* the proxy service is running
    torProcess,     \* self._tor_process: 0 is None, else a process id
    bootstrapProgress, \* self._bootstrap_progress
    onionAddress,   \* self._onion_address
    fileObserver,   \* self._file_observer: 0 is None, else an observer id
    observers,      \* observer ids started and not stopped
    nObservers,     \* observers created so far
    procs,          \* per spawned daemon: liveness and its reader thread
    pc,             \* where the caller is
    siteArg,        \* kind of the site_directory argument of the operation
                    \* in progress (no directory for the other operations)
    orch,           \* the running step belongs to start_service
    ret,            \* what the last finished operation returned
    statusSnap,     \* what the last get_service_status returned
    statusPc,       \* where the thread that calls get_service_status is
    stepLog,        \* steps of the current start_service call, with outcomes
    cmdLog,         \* commands handed to the runner by the current step
    atCall,         \* config, torrc, the number of daemons spawned and nginx's
                    \* state when the current operation was called
    tcCalls,        \* configure_tor_hidden_service calls that returned success
    nEvents,        \* operations started and output lines consumed so far
    sudoPassword,   \* self._sudo_password
    isGui,          \* self.is_gui
    elevated,       \* SystemDetector.check_permissions()
    runLog,         \* the calls of _run_privileged_command that are followed
    logFile,        \* the messages handed to the logger by the callers of
                    \* the runner that are followed
    nginxConfig,    \* the arguments and the text of the proxy configuration
                    \* where its rendering is followed
    startThreads    \* the threads the GUI has started for start_service:
                    \* each one's position and the process it spawned

vars == <<platform, watchdogAvailable, torInstalled, nginxInstalled, config, torrc, nginxRunning,
          torProcess, bootstrapProgress, onionAddress, fileObserver, observers,
          nObservers, procs, pc, siteArg, orch, ret, statusSnap, statusPc,
          stepLog, cmdLog,
          atCall, tcCalls, nEvents, sudoPassword, isGui, elevated, runLog,
          logFile, nginxConfig, startThreads>>

runnerVars == <<sudoPassword, isGui, elevated, runLog, logFile>>

envVars == <<platform, watchdogAvailable, torInstalled, nginxInstalled,
             runnerVars, nginxConfig, startThreads>>

(***************************************************************************)
(* ConfigManager.                                                          *)
(***************************************************************************)
\* ConfigManager._get_default_config, the keys the core reads and writes
\* (services: the packages whose '<name>_installed' flag is true)
DefaultConfig ==
    [site_directory |-> NoDir,
     nginx_port |-> NGINX_DEFAULT_PORT,
     onion_address |-> NoAddr,
     service_running |-> FALSE,
     hidden_service_dir |-> <<>>,
     services |-> {},
     history |-> <<>>]

\* a history that keeps its oldest entries
AddToHistoryKeepingOldest(cfg, entry) ==
    LET h == Append(cfg.history, entry)
    IN  [cfg EXCEPT !.history = IF Len(h) > HISTORY_CAP
                                 THEN SubSeq(h, 1, HISTORY_CAP) ELSE h]

\* ConfigManager.add_to_history: append, keep the last HISTORY_CAP entries
AddToHistory(cfg, entry) ==
    LET h == Append(cfg.history, entry)
        kept == IF Len(h) > HISTORY_CAP
                THEN SubSeq(h, Len(h) - HISTORY_CAP + 1, Len(h))
                ELSE h
    IN  [cfg EXCEPT !.history = kept]

\* ConfigManager.set_service_running
SetServiceRunning(cfg, running) == [cfg EXCEPT !.service_running = running]

UpdateOnionAddressDropped(cfg, addr) == cfg

\* ConfigManager.update_onion_address
UpdateOnionAddress(cfg, addr) == [cfg EXCEPT !.onion_address = addr]

(***************************************************************************)
(* Results of operations.  A message is a sequence of text fragments.      *)
(***************************************************************************)
Ret(op, ok, msg, addr) == [op |-> op, ok |-> ok, msg |-> msg, addr |-> addr]

Running == Ret("none", FALSE, <<>>, NoAddr)

\* the threads gui_app.start_service can have running at once, and a
\* thread that has not been started
Threads == {"t1", "t2"}

NoThread == [pc |-> "none", proc |-> 0, ret |-> Running]

NoThreads == [t \in Threads |-> NoThread]

NoStatus ==
    [service_running |-> FALSE, tor_running |-> FALSE, bootstrap_progress |-> 0,
     onion_address |-> NoAddr, valid |-> FALSE, taken |-> FALSE,
     raised |-> FALSE]

ValidateSiteDirectoryWithoutIndexCheck(kind) ==
    IF kind = "missing" THEN [ok |-> FALSE, msg |-> <<"Directory does not exist.">>]
    ELSE IF kind = "file" THEN [ok |-> FALSE, msg |-> <<"Path is not a directory.">>]
    ELSE [ok |-> TRUE, msg |-> <<"Directory is valid.">>]

\* OnionServiceManager.validate_site_directory
ValidateSiteDirectory(kind) ==
    IF kind = "missing" THEN [ok |-> FALSE, msg |-> <<"Directory does not exist.">>]
    ELSE IF kind = "file" THEN [ok |-> FALSE, msg |-> <<"Path is not a directory.">>]
    ELSE IF kind = "noindex" THEN [ok |-> FALSE, msg |-> <<"No index file found.">>]
    ELSE [ok |-> TRUE, msg |-> <<"Directory is valid.">>]

(***************************************************************************)
(* A function of the manager that issues commands one after another runs a *)
(* script: each entry names the command and says whether a non-zero exit   *)
(* code makes the function return.  An exception of the runner always ends *)
(* the function (its `except Exception`).                                  *)
(***************************************************************************)
Cmd(name, abort) == [cmd |-> name, abort |-> abort]

\* The ways a script can end: at=0 when every command returned and none with
\* an aborting failure; otherwise the index of the command that ended it and
\* how: "fail" (non-zero exit of a command whose failure the code returns on)
\* or "raise" (the runner raised).  A non-zero exit the code only logs does
\* not end the script and leaves no trace in the state.
Exits(script) ==
    {[at |-> 0, how |-> "ok"]}
    \cup {[at |-> i, how |-> "raise"] : i \in 1..Len(script)}
    \cup {[at |-> i, how |-> "fail"] : i \in {k \in 1..Len(script) : script[k].abort}}

\* the commands handed to the runner with their outcomes: all of the
\* script, or those up to the one that ended it.  A command the script went
\* past returned 0 if the code returns on its failure, and otherwise any
\* exit code ("any")
Issued(script, e) ==
    [i \in 1..(IF e.at = 0 THEN Len(script) ELSE e.at) |->
        <<script[i].cmd,
          IF i = e.at THEN e.how
          ELSE IF script[i].abort THEN "ok" ELSE "any">>]

(***************************************************************************)
(* Initial state: the module is about to be loaded and a manager           *)
(* (OnionServiceManager.__init__) constructed over a default               *)
(* configuration, on any platform, with or without the watchdog package.   *)
(***************************************************************************)
\* a manager constructed over the configuration cfg, where the daemon
\* configuration file holds text
ManagerOver(cfg, text) ==
    /\ torInstalled = TRUE
    /\ nginxInstalled = TRUE
    /\ config = cfg
    /\ torrc = text
    /\ nginxRunning = FALSE
    /\ torProcess = 0
    /\ bootstrapProgress = 0
    /\ onionAddress = NoAddr
    /\ fileObserver = 0
    /\ observers = {}
    /\ nObservers = 0
    /\ procs = <<>>
    /\ pc = "import"
    /\ siteArg = NoDir
    /\ orch = FALSE
    /\ ret = Running
    /\ statusSnap = NoStatus
    /\ statusPc = "idle"
    /\ stepLog = <<>>
    /\ cmdLog = <<>>
    /\ atCall = [config |-> cfg, torrc |-> text, nprocs |-> 0,
                 nginxRunning |-> FALSE]
    /\ tcCalls = 0
    /\ nEvents = 0

\* the runner and the text of the proxy configuration where they are not
\* followed
RunnerIdle ==
    /\ sudoPassword = NoPassword
    /\ isGui = FALSE
    /\ elevated = TRUE
    /\ runLog = <<>>
    /\ logFile = {}
    /\ nginxConfig = NotRendered
    /\ startThreads = NoThreads

ManagerInit ==
    /\ platform \in Platforms
    /\ watchdogAvailable \in BOOLEAN
    /\ ManagerOver(DefaultConfig, <<>>)

\* no credential is cached (line 57).  The operations are followed with the
\* runner's results as outcomes, as in a session run as root, where the
\* runner neither reads nor asks for the credential
Init ==
    /\ ManagerInit
    /\ RunnerIdle

\* loading the module, lines 22-39: a failed import of watchdog is caught
\* and recorded in WATCHDOG_AVAILABLE; the class statement of line 30 then
\* evaluates its base FileSystemEventHandler, a name the failed import has
\* not bound, and the NameError ends the import
ImportModule ==
    /\ pc = "import"
    /\ pc' = IF watchdogAvailable THEN "idle" ELSE "import_error"
    /\ UNCHANGED <<envVars, config, torrc, nginxRunning, torProcess,
                   bootstrapProgress, onionAddress, fileObserver, observers,
                   nObservers, procs, siteArg, orch, ret, statusSnap,
                   statusPc, stepLog, cmdLog, atCall, tcCalls, nEvents>>

\* the platforms on which the sites-enabled symlink applies (line 428)
HasSitesEnabled(pf) == pf = "debian"

\* Linux that is not Termux
IsLinux(pf) == pf \in {"debian", "redhat"}

\* bookkeeping common to the start of every public operation; only
\* start_service is followed with respect to the installed daemons
BeginOp(cmds) ==
    /\ pc = "idle"
    /\ platform' = platform
    /\ watchdogAvailable' = watchdogAvailable
    /\ UNCHANGED <<runnerVars, nginxConfig, startThreads>>
    /\ nEvents < MaxEvents
    /\ nEvents' = nEvents + 1
    /\ atCall' = [config |-> config, torrc |-> torrc, nprocs |-> Len(procs),
                  nginxRunning |-> nginxRunning]
    /\ cmdLog' = cmds
    /\ stepLog' = <<>>
    /\ statusSnap' = NoStatus
    /\ statusPc' = statusPc

\* the installed flags are those of the operation in progress: they are
\* kept while start_service goes on and forgotten when it returns
EnvAfter(nxt) ==
    /\ platform' = platform
    /\ watchdogAvailable' = watchdogAvailable
    /\ UNCHANGED <<runnerVars, nginxConfig, startThreads>>
    /\ torInstalled' = (nxt = "idle" \/ torInstalled)
    /\ nginxInstalled' = (nxt = "idle" \/ nginxInstalled)

(***************************************************************************)
(* start_service, lines 1109-1133: the steps in order, each one followed   *)
(* by `if not success: return False, ...`.                                 *)
(***************************************************************************)
StepOrder == <<"create_nginx_config", "configure_tor_hidden_service",
               "start_nginx", "start_tor_manual">>

AfterStepIgnoringFailure(step, ok) ==
    CASE step = "validate_site_directory" -> IF ok THEN "nginx_config" ELSE "idle"
      [] step = "create_nginx_config" -> "tor_config"
      [] step = "configure_tor_hidden_service" -> "start_nginx"
      [] step = "start_nginx" -> "start_tor"

\* where start_service goes after a step that returned `ok`
AfterStep(step, ok) ==
    IF ~ok THEN "idle"
    ELSE CASE step = "validate_site_directory" -> "nginx_config"
           [] step = "create_nginx_config" -> "tor_config"
           [] step = "configure_tor_hidden_service" -> "start_nginx"
           [] step = "start_nginx" -> "start_tor"

StartService(kind) ==
    /\ BeginOp(<<>>)
    /\ siteArg' = kind
    /\ LET v == ValidateSiteDirectory(kind)
           nxt == AfterStep("validate_site_directory", v.ok)
       IN  /\ pc' = nxt
           /\ torInstalled' \in (IF nxt = "idle" THEN {TRUE} ELSE BOOLEAN)
           /\ nginxInstalled' \in (IF nxt = "idle" THEN {TRUE} ELSE BOOLEAN)
           /\ IF nxt # "idle"
              THEN /\ orch' = TRUE
                   /\ ret' = Running
              ELSE /\ orch' = FALSE
                   /\ ret' = Ret("start_service", FALSE, v.msg, NoAddr)
    /\ UNCHANGED <<config, torrc, nginxRunning, torProcess,
                   bootstrapProgress, onionAddress, fileObserver, observers,
                   nObservers, procs, tcCalls>>

(***************************************************************************)
(* create_nginx_config, lines 332-472.                                     *)
(***************************************************************************)
\* the commands of create_nginx_config in order.  Where the symlink step
\* does not apply the function stops after the relocation: `sites_enabled`
\* is unbound at line 432.  At line 437 the command run is `rm <link>` when
\* the link exists and otherwise the previous command (the relocation).
NginxScript(pf, linkExists, defaultExists) ==
    <<Cmd("mkdir nginx_root", TRUE), Cmd("cp site", TRUE),
      Cmd("chown nginx_root", FALSE), Cmd("mv nginx_config", TRUE)>>
    \o (IF HasSitesEnabled(pf)
        THEN <<Cmd(IF linkExists THEN "rm site_link" ELSE "mv nginx_config", FALSE),
               Cmd("ln site_link", TRUE)>>
             \o (IF defaultExists THEN <<Cmd("rm default_link", FALSE)>> ELSE <<>>)
             \o <<Cmd("nginx test", TRUE)>>
        ELSE <<>>)

\* the watcher is started after the ownership command (lines 381-385)
WatcherPoint == 3

\* lines 355-358 validate the directory again, before any command
CreateNginxConfigResult(pf, site, script, e) ==
    IF ~ValidateSiteDirectory(site).ok
    THEN [ok |-> FALSE, msg |-> ValidateSiteDirectory(site).msg]
    ELSE IF e.at = 0
    THEN IF HasSitesEnabled(pf)
         THEN [ok |-> TRUE, msg |-> <<"Nginx configuration created successfully!">>]
         ELSE [ok |-> FALSE, msg |-> <<"Error: ", "NameError sites_enabled">>]
    ELSE IF e.how = "raise"
         THEN [ok |-> FALSE, msg |-> <<"Error: ", script[e.at].cmd>>]
         ELSE [ok |-> FALSE, msg |-> <<"Failed: ", script[e.at].cmd>>]

CreateNginxConfig ==
    /\ pc = "nginx_config"
    /\ \E linkExists \in (IF HasSitesEnabled(platform) THEN BOOLEAN ELSE {FALSE}),
          defaultExists \in (IF HasSitesEnabled(platform) THEN BOOLEAN ELSE {FALSE}) :
         LET script == NginxScript(platform, linkExists, defaultExists)
             \* `nginx -t` cannot exit 0 where nginx is not installed; the
             \* links are looked at only after the relocation (command 4)
             exits == {x \in Exits(script) :
                         /\ nginxInstalled \/ ~HasSitesEnabled(platform) \/ x.at # 0
                         /\ x.at \in 1..4 => ~linkExists /\ ~defaultExists}
         IN  \E e \in exits :
               LET valid == ValidateSiteDirectory(siteArg).ok
                   r == CreateNginxConfigResult(platform, siteArg, script, e)
                   \* _start_file_watcher returns at once without watchdog
                   watch == /\ valid
                            /\ watchdogAvailable
                            /\ (e.at = 0 \/ e.at > WatcherPoint)
                   nxt == AfterStep("create_nginx_config", r.ok)
               IN  /\ cmdLog' = (IF valid THEN Issued(script, e) ELSE <<>>)
                   /\ stepLog' = Append(stepLog, <<"create_nginx_config", r.ok>>)
                   /\ IF watch
                      THEN /\ nObservers' = nObservers + 1
                           /\ fileObserver' = nObservers + 1
                           /\ observers' = observers \cup {nObservers + 1}
                      ELSE UNCHANGED <<nObservers, fileObserver, observers>>
                   /\ config' = IF r.ok
                                THEN [config EXCEPT !.site_directory = siteArg,
                                                    !.nginx_port = config.nginx_port]
                                ELSE config
                   /\ pc' = nxt
                   /\ IF nxt # "idle"
                      THEN UNCHANGED <<ret, orch>>
                      ELSE /\ orch' = FALSE
                           /\ ret' = Ret("start_service", FALSE, r.msg, NoAddr)
    /\ EnvAfter(pc')
    /\ UNCHANGED <<torrc, nginxRunning, torProcess, bootstrapProgress,
                   onionAddress, procs, siteArg, statusSnap, statusPc, atCall, tcCalls,
                   nEvents>>

(***************************************************************************)
(* configure_tor_hidden_service, lines 474-609.                            *)
(***************************************************************************)
\* a direct call of the public method (as test_manual_tor.py makes it)
CallConfigureTor ==
    /\ BeginOp(<<>>)
    /\ torInstalled' = TRUE
    /\ nginxInstalled' = TRUE
    /\ pc' = "tor_config"
    /\ orch' = FALSE
    /\ ret' = Running
    /\ UNCHANGED <<config, torrc, nginxRunning, torProcess,
                   bootstrapProgress, onionAddress, fileObserver, observers,
                   nObservers, procs, tcCalls>>
    /\ siteArg' = NoDir

\* lines 511-543: the commands that create the hidden-service directory
\* (Termux uses os.makedirs and no command)
TorDirScript(pf) ==
    IF pf = "termux" THEN <<>>
    ELSE <<Cmd("mkdir hidden_service_dir", TRUE),
           Cmd("chown hidden_service_dir", FALSE),
           Cmd("chmod hidden_service_dir", TRUE)>>

\* lines 545-560: the existing configuration as the function sees it: the
\* file's text, or the empty text when the privileged read did not exit 0
ExistingConfig(text, rd, oc) ==
    IF rd = "direct" \/ oc = "ok" THEN text ELSE <<>>

\* lines 563-566
AlreadyConfigured(existing, dir) ==
    Contains(existing, <<"HiddenServiceDir">>) /\ Contains(existing, dir)

\* the file opened for writing instead of appending
OverwriteTorrc(text, stanza) == stanza

\* lines 585-592: open(tor_config_path, "a") and write, or cat temp >> file
AppendToTorrc(text, stanza) == text \o stanza

TcRes(ok, msg, cmds, text) == [ok |-> ok, msg |-> msg, cmds |-> cmds, torrc |-> text]

\* the whole function: e ends the directory script, ch is the exit of the
\* ownership command when the script goes past it (lines 531-534: a
\* non-zero exit is logged as a warning), mk is os.makedirs (Termux), rd
\* the direct read of the file, oc the privileged read, oa the append
ConfigureTorResult(pf, text, dir, port, e, ch, mk, rd, oc, oa) ==
    LET script == TorDirScript(pf)
        cmds1 == [i \in DOMAIN Issued(script, e) |->
                    IF script[i].cmd = "chown hidden_service_dir" /\ i # e.at
                    THEN <<script[i].cmd, ch>>
                    ELSE Issued(script, e)[i]]
        cmds2 == IF rd = "denied" THEN cmds1 \o <<<<"cat torrc", oc>>>> ELSE cmds1
        existing == ExistingConfig(text, rd, oc)
    IN  IF pf = "termux" /\ mk = "raise"
        THEN TcRes(FALSE, <<"Permission denied.">>, <<>>, text)
        ELSE IF e.at # 0
        THEN TcRes(FALSE,
                   <<IF e.how = "raise" THEN "Error: " ELSE "Failed: ", script[e.at].cmd>>,
                   cmds1, text)
        ELSE IF rd = "denied" /\ oc = "raise"
        THEN TcRes(FALSE, <<"Error: ", "cat torrc">>, cmds2, text)
        ELSE IF AlreadyConfigured(existing, dir)
        THEN TcRes(TRUE, <<"Tor hidden service configured successfully!">>, cmds2, text)
        ELSE IF pf = "termux"
        THEN IF oa = "ok"
             THEN TcRes(TRUE, <<"Tor hidden service configured successfully!">>,
                        cmds2, AppendToTorrc(text, TorStanza(dir, port)))
             ELSE TcRes(FALSE, <<"Permission denied.">>, cmds2, text)
        ELSE IF oa = "ok"
             THEN TcRes(TRUE, <<"Tor hidden service configured successfully!">>,
                        cmds2 \o <<<<"append torrc", oa>>>>, AppendToTorrc(text, TorStanza(dir, port)))
             ELSE TcRes(FALSE,
                        <<IF oa = "raise" THEN "Error: " ELSE "Failed: ", "append torrc">>,
                        cmds2 \o <<<<"append torrc", oa>>>>, text)

ConfigureTorHiddenService ==
    /\ pc = "tor_config"
    /\ \E e \in Exits(TorDirScript(platform)),
          mk \in (IF platform = "termux" THEN {"ok", "raise"} ELSE {"ok"}) :
       \E ch \in (IF platform # "termux" /\ (e.at = 0 \/ e.at > 2)
                  THEN {"ok", "fail"} ELSE {"ok"}) :
       \* an outcome is chosen for the steps the function gets to
       \E rd \in (IF e.at = 0 /\ mk = "ok" THEN {"direct", "denied"} ELSE {"direct"}) :
       \E oc \in (IF rd = "denied" THEN Outcomes ELSE {"ok"}) :
       \E oa \in (IF /\ e.at = 0
                     /\ mk = "ok"
                     /\ oc # "raise"
                     /\ ~AlreadyConfigured(ExistingConfig(torrc, rd, oc),
                                           HiddenServiceDirOf(platform))
                  THEN Outcomes ELSE {"ok"}) :
         LET dir == HiddenServiceDirOf(platform)
             r == ConfigureTorResult(platform, torrc, dir, config.nginx_port,
                                     e, ch, mk, rd, oc, oa)
         IN  /\ config' = [config EXCEPT !.hidden_service_dir = dir]
             /\ torrc' = r.torrc
             /\ cmdLog' = r.cmds
             /\ tcCalls' = (IF r.ok THEN tcCalls + 1 ELSE tcCalls)
             /\ IF orch
                THEN LET nxt == AfterStep("configure_tor_hidden_service", r.ok)
                     IN  /\ stepLog' = Append(stepLog, <<"configure_tor_hidden_service", r.ok>>)
                         /\ pc' = nxt
                         /\ IF nxt # "idle"
                            THEN UNCHANGED <<ret, orch>>
                            ELSE /\ orch' = FALSE
                                 /\ ret' = Ret("start_service", FALSE, r.msg, NoAddr)
                ELSE /\ pc' = "idle"
                     /\ ret' = Ret("configure_tor_hidden_service", r.ok, r.msg, NoAddr)
                     /\ UNCHANGED <<stepLog, orch>>
    /\ EnvAfter(pc')
    /\ UNCHANGED <<nginxRunning, torProcess, bootstrapProgress,
                   onionAddress, fileObserver, observers, nObservers, procs,
                   siteArg, statusSnap, statusPc, atCall, nEvents>>

(***************************************************************************)
(* start_nginx, lines 629-653.                                             *)
(***************************************************************************)
StartNginxResult(o) ==
    IF o = "ok" THEN [ok |-> TRUE, msg |-> <<"Nginx started successfully!">>]
    ELSE IF o = "fail" THEN [ok |-> FALSE, msg |-> <<"Failed to start Nginx: ", "stderr">>]
    ELSE [ok |-> FALSE, msg |-> <<"Error: ", "nginx start">>]

StartNginx ==
    /\ pc = "start_nginx"
    /\ \E o \in (IF nginxInstalled THEN Outcomes ELSE {"fail", "raise"}) :
         LET r == StartNginxResult(o)
             nxt == AfterStep("start_nginx", r.ok)
         IN  /\ cmdLog' = <<<<"nginx start", o>>>>
             /\ stepLog' = Append(stepLog, <<"start_nginx", r.ok>>)
             /\ nginxRunning' = (nginxRunning \/ o = "ok")
             /\ pc' = nxt
             /\ IF nxt # "idle"
                THEN UNCHANGED <<ret, orch>>
                ELSE /\ orch' = FALSE
                     /\ ret' = Ret("start_service", FALSE,
                                   <<"Failed to start Nginx: ">> \o r.msg, NoAddr)
    /\ EnvAfter(pc')
    /\ UNCHANGED <<config, torrc, torProcess, bootstrapProgress,
                   onionAddress, fileObserver, observers, nObservers, procs,
                   siteArg, statusSnap, statusPc, atCall, tcCalls, nEvents>>

(***************************************************************************)
(* The daemon's output and its reader thread (monitor_bootstrap,           *)
(* lines 821-861).                                                         *)
(***************************************************************************)
Percents == {10, 50, 100}

\* a line `Bootstrapped N%: status`, and a line that holds "error"
PctLine(n) == [pct |-> n, err |-> FALSE]
ErrLine == [pct |-> NoPct, err |-> TRUE]
NoLine == [pct |-> NoPct, err |-> FALSE]
Lines == {PctLine(n) : n \in Percents} \cup {ErrLine}

\* a daemon just spawned, with its reader thread and the closure variables
\* of the start_tor_manual call (bootstrap_complete, bootstrap_error), the
\* percentages the caller's progress_callback has received (cb) and those
\* the command line's callback has displayed (shown)
NewProc ==
    [alive |-> TRUE, mon |-> "run", line |-> NoLine,
     complete |-> FALSE, errors |-> <<>>, cb |-> <<>>, shown |-> <<>>]

\* on Linux the daemon is spawned through sudo (lines 748, 799-806): where
\* tor is not installed the child is sudo alone, which prints no bootstrap
\* line and exits
SudoWithoutTor == [NewProc EXCEPT !.alive = FALSE, !.mon = "done"]

\* cli_interface.py, bootstrap_progress_callback: last_progress starts at 0
\* and a percentage is displayed only when it is above it
LastProgress(shown) == IF shown = <<>> THEN 0 ELSE shown[Len(shown)]

BootstrapProgressCallbackUnfiltered(shown, n) == Append(shown, n)

BootstrapProgressCallback(shown, n) ==
    IF n > LastProgress(shown) THEN Append(shown, n) ELSE shown

\* line 823: the reader takes the next line of the daemon's output
MonitorRead(p) ==
    /\ procs[p].alive
    /\ procs[p].mon = "run"
    /\ nEvents < MaxEvents
    /\ nEvents' = nEvents + 1
    /\ \E l \in Lines :
         procs' = [procs EXCEPT ![p].line = l, ![p].mon = "pending"]
    /\ UNCHANGED <<envVars, config, torrc, nginxRunning, torProcess,
                   bootstrapProgress, onionAddress, fileObserver, observers,
                   nObservers, pc, siteArg, orch, ret, statusSnap, statusPc, stepLog,
                   cmdLog, atCall, tcCalls>>

\* lines 828-852: what a line matching the percent pattern does
OnPercent(pr, n) ==
    [pr EXCEPT !.cb = Append(@, n),
               !.shown = BootstrapProgressCallback(@, n),
               !.complete = (@ \/ n = 100),
               !.mon = IF n = 100 THEN "done" ELSE "run",
               !.line = NoLine]

\* the text of a line that holds "error", as bootstrap_error keeps it
LineText(l) ==
    IF l.pct = NoPct THEN "error line"
    ELSE IF l.pct = 10 THEN "Bootstrapped 10% error"
    ELSE IF l.pct = 50 THEN "Bootstrapped 50% error"
    ELSE "Bootstrapped 100% error"

\* lines 854-857: a line with an error indicator is kept
OnError(pr, l) ==
    IF l.err THEN [pr EXCEPT !.errors = Append(@, LineText(l))] ELSE pr

\* lines 824-857: the reader handles the line it took
MonitorApply(p) ==
    /\ procs[p].mon = "pending"
    /\ LET l == procs[p].line
       IN  IF l.pct # NoPct
           THEN /\ bootstrapProgress' = l.pct
                /\ procs' = [procs EXCEPT ![p] =
                               IF l.pct = 100 THEN OnPercent(@, l.pct)
                               ELSE OnError(OnPercent(@, l.pct), l)]
           ELSE /\ bootstrapProgress' = bootstrapProgress
                /\ procs' = [procs EXCEPT ![p] =
                               OnError([@ EXCEPT !.mon = "run", !.line = NoLine], l)]
    /\ UNCHANGED <<envVars, config, torrc, nginxRunning, torProcess,
                   onionAddress, fileObserver, observers, nObservers, pc,
                   siteArg, orch, ret, statusSnap, statusPc, stepLog, cmdLog, atCall, tcCalls, nEvents>>

\* the daemon exits on its own
ProcExit(p) ==
    /\ procs[p].alive
    /\ procs' = [procs EXCEPT ![p].alive = FALSE]
    /\ UNCHANGED <<envVars, config, torrc, nginxRunning, torProcess,
                   bootstrapProgress, onionAddress, fileObserver, observers,
                   nObservers, pc, siteArg, orch, ret, statusSnap, statusPc, stepLog,
                   cmdLog, atCall, tcCalls, nEvents>>

(***************************************************************************)
(* _read_onion_address, lines 904-932.                                     *)
(***************************************************************************)
ReadOnionAddress(pf, cfg, o) ==
    IF cfg.hidden_service_dir = <<>>
    THEN [addr |-> NoAddr, cmds |-> <<>>]
    ELSE [addr |-> IF o = "ok" THEN OnionAddr ELSE NoAddr,
          cmds |-> IF IsLinux(pf) THEN <<<<"cat hostname", o>>>> ELSE <<>>]

(***************************************************************************)
(* get_onion_address, lines 1029-1092.                                     *)
(***************************************************************************)
\* the value returned and the commands issued: the cached address; else
\* what _read_onion_address finds (o); else, with a directory configured,
\* what the waiting loop finds (loop), whose commands on Linux go through
\* the runner outside any try block
GetOnionAddressResult(pf, cfg, cached, o, loop) ==
    LET rd == ReadOnionAddress(pf, cfg, o)
        probe == IF IsLinux(pf)
                 THEN IF loop = "found"
                      THEN <<<<"test hostname", "ok">>, <<"cat hostname", "ok">>>>
                      ELSE <<<<"test hostname", IF loop = "raise" THEN "raise" ELSE "fail">>>>
                 ELSE <<>>
    IN  IF cached # NoAddr
        THEN [addr |-> cached, raised |-> FALSE, cmds |-> <<>>]
        ELSE IF rd.addr # NoAddr
        THEN [addr |-> rd.addr, raised |-> FALSE, cmds |-> rd.cmds]
        ELSE IF cfg.hidden_service_dir = <<>>
        THEN [addr |-> NoAddr, raised |-> FALSE, cmds |-> rd.cmds]
        ELSE [addr |-> IF loop = "found" THEN OnionAddr ELSE NoAddr,
              raised |-> (IsLinux(pf) /\ loop = "raise"),
              cmds |-> rd.cmds \o probe]

GetOnionAddress ==
    \E o \in (IF onionAddress = NoAddr /\ config.hidden_service_dir # <<>>
              THEN {"ok", "fail"} ELSE {"ok"}) :
    \E loop \in (IF onionAddress = NoAddr /\ config.hidden_service_dir # <<>> /\ o # "ok"
                 THEN {"found", "notfound", "raise"} ELSE {"found"}) :
      LET r == GetOnionAddressResult(platform, config, onionAddress, o, loop)
      IN  /\ BeginOp(r.cmds)
          /\ onionAddress' = IF r.addr # NoAddr THEN r.addr ELSE onionAddress
          /\ config' = IF r.addr # NoAddr /\ onionAddress = NoAddr
                       THEN UpdateOnionAddress(config, r.addr) ELSE config
          /\ ret' = Ret("get_onion_address", ~r.raised,
                        IF r.raised THEN <<"raised">> ELSE <<>>, r.addr)
          /\ torInstalled' = TRUE
          /\ nginxInstalled' = TRUE
          /\ siteArg' = NoDir
          /\ pc' = "idle"
          /\ UNCHANGED <<torrc, nginxRunning, torProcess, bootstrapProgress,
                         fileObserver, observers, nObservers, procs, orch,
                         tcCalls>>

(***************************************************************************)
(* start_tor_manual, lines 707-902, and the rest of start_service after    *)
(* it, lines 1131-1158.                                                    *)
(***************************************************************************)
\* lines 1135-1158: start_service once start_tor_manual returned success
\* with self._onion_address = na; o is the outcome of the fallback read
FinishStart(cfg, pf, site, na, o) ==
    LET rd == ReadOnionAddress(pf, cfg, o)
        a == IF na # NoAddr THEN na ELSE rd.addr
        cmds == IF na # NoAddr THEN <<>> ELSE rd.cmds
    IN  IF a = NoAddr
        THEN [ret |-> Ret("start_service", FALSE,
                          <<"Service started but onion address not available yet. Check back in a moment.">>,
                          NoAddr),
              config |-> cfg, cmds |-> cmds]
        ELSE [ret |-> Ret("start_service", TRUE,
                          <<"Onion service started successfully!">>, a),
              config |-> AddToHistory(
                            UpdateOnionAddress(SetServiceRunning(cfg, TRUE), a),
                            [action |-> "service_started", site_directory |-> site,
                             onion_address |-> a]),
              cmds |-> cmds]

\* start_tor_manual returns (ok, msg) to start_service having issued cmds
\* and left self._onion_address = na; start_service goes on (1132-1158)
ReturnFromTor(ok, msg, na, cmds) ==
    /\ onionAddress' = na
    /\ pc' = "idle"
    /\ orch' = FALSE
    /\ stepLog' = Append(stepLog, <<"start_tor_manual", ok>>)
    /\ IF ~ok
       THEN /\ ret' = Ret("start_service", FALSE,
                          <<"Failed to start Tor: ">> \o msg, NoAddr)
            /\ cmdLog' = cmds
            /\ UNCHANGED config
       ELSE \E o \in Outcomes :
              LET f == FinishStart(config, platform, siteArg, na, o)
              IN  /\ ret' = f.ret
                  /\ config' = f.config
                  /\ cmdLog' = cmds \o f.cmds

\* lines 720-721
TorAlreadyRunning == torProcess # 0 /\ procs[torProcess].alive

\* lines 720-818: up to the start of the reader thread
StartTorManual ==
    /\ pc = "start_tor"
    /\ IF TorAlreadyRunning
       THEN /\ ReturnFromTor(TRUE, <<"Tor is already running.">>, onionAddress, <<>>)
            /\ UNCHANGED <<procs, torProcess, bootstrapProgress>>
       ELSE IF config.hidden_service_dir = <<>>
       THEN /\ ReturnFromTor(FALSE, <<"Hidden service directory not configured.">>,
                             onionAddress, <<>>)
            /\ UNCHANGED <<procs, torProcess, bootstrapProgress>>
       ELSE \E verify \in (IF ~IsLinux(platform) THEN {"ok"}
                           ELSE IF torInstalled
                           THEN {"ok", "fail", "timeout", "raise"}
                           ELSE {"fail", "timeout", "raise"}),
               spawn \in (IF torInstalled \/ IsLinux(platform)
                          THEN {"ok", "notfound"} ELSE {"notfound"}) :
              IF verify \in {"fail", "timeout"}
              THEN /\ ReturnFromTor(FALSE,
                         IF verify = "fail"
                         THEN <<"Tor configuration is invalid: ", "stderr">>
                         ELSE <<"Tor config validation timed out.">>,
                         onionAddress, <<>>)
                   /\ UNCHANGED <<procs, torProcess, bootstrapProgress>>
              ELSE IF spawn = "notfound"
              THEN /\ ReturnFromTor(FALSE, <<"Tor executable not found: ", "tor">>,
                                    onionAddress, <<>>)
                   /\ UNCHANGED <<procs, torProcess, bootstrapProgress>>
              ELSE /\ procs' = Append(procs, IF torInstalled THEN NewProc
                                               ELSE SudoWithoutTor)
                   /\ torProcess' = Len(procs) + 1
                   /\ bootstrapProgress' = 0
                   /\ pc' = "wait"
                   /\ cmdLog' = <<>>
                   /\ UNCHANGED <<onionAddress, orch, ret, config, stepLog>>
    /\ EnvAfter(pc')
    /\ UNCHANGED <<torrc, nginxRunning, fileObserver, observers,
                   nObservers, siteArg, statusSnap, statusPc, atCall, tcCalls, nEvents>>

\* every accumulated error line joined into the message
TimeoutMessageAllErrors(errors, progress) ==
    IF errors # <<>>
    THEN <<"Tor bootstrap timed out. Errors: ">> \o errors
    ELSE <<"Tor bootstrap timed out at ">> \o DecimalText(progress)
         \o <<"%. Please check your network connection.">>

\* lines 887-896: the message of a timeout
TimeoutMessage(errors, progress) ==
    IF errors # <<>>
    THEN <<"Tor bootstrap timed out. Errors: ">>
         \o SubSeq(errors, 1, IF Len(errors) < ERRORS_IN_MESSAGE
                              THEN Len(errors) ELSE ERRORS_IN_MESSAGE)
    ELSE <<"Tor bootstrap timed out at ">> \o DecimalText(progress)
         \o <<"%. Please check your network connection.">>

\* lines 866-896: bootstrap_complete.wait(timeout=120) returns
TorWait ==
    /\ pc = "wait"
    /\ LET pr == procs[torProcess]
       IN  \/ /\ pr.complete
              /\ \E o \in Outcomes :
                   LET rd == ReadOnionAddress(platform, config, o)
                   IN  ReturnFromTor(TRUE,
                          IF rd.addr # NoAddr
                          THEN <<"Tor service started successfully! Your .onion address: ",
                                 rd.addr>>
                          ELSE <<"Tor service started! Address will be available shortly.">>,
                          rd.addr, rd.cmds)
           \/ /\ ~pr.complete
              /\ ReturnFromTor(FALSE, TimeoutMessage(pr.errors, bootstrapProgress),
                               onionAddress, <<>>)
    /\ EnvAfter(pc')
    /\ UNCHANGED <<torrc, nginxRunning, torProcess, bootstrapProgress,
                   fileObserver, observers, nObservers, procs, siteArg,
                   statusSnap, statusPc, atCall, tcCalls, nEvents>>

(***************************************************************************)
(* stop_service, lines 1160-1188, with stop_nginx (655-679), stop_tor      *)
(* (960-1001) and _stop_file_watcher (102-108).                            *)
(***************************************************************************)
StopNginxResultAlwaysStopped(o) ==
    [ok |-> TRUE, msg |-> <<"Nginx stopped.">>]

\* stop_nginx: a non-zero exit code counts as stopped (lines 672-675)
StopNginxResult(o) ==
    IF o = "ok" THEN [ok |-> TRUE, msg |-> <<"Nginx stopped successfully!">>]
    ELSE IF o = "fail" THEN [ok |-> TRUE, msg |-> <<"Nginx stopped.">>]
    ELSE [ok |-> FALSE, msg |-> <<"Error: ", "nginx stop">>]

\* stop_tor always reports success (lines 998-1001)
StopTorResult(stopped) ==
    IF stopped THEN [ok |-> TRUE, msg |-> <<"Tor stopped successfully!">>]
    ELSE [ok |-> TRUE, msg |-> <<"Tor was not running or already stopped.">>]

\* lines 1167-1177, 1185-1188: the sub-failures collected into the result
StopServiceResult(ng, tr) ==
    LET errors == (IF ng.ok THEN <<>> ELSE <<"Nginx: ">> \o ng.msg)
                  \o (IF tr.ok THEN <<>> ELSE <<"Tor: ">> \o tr.msg)
    IN  IF errors # <<>>
        THEN Ret("stop_service", FALSE, <<"Errors occurred: ">> \o errors, NoAddr)
        ELSE Ret("stop_service", TRUE, <<"Onion service stopped successfully!">>, NoAddr)

\* stop_tor on the processes: terminate() and wait() on the handle when it
\* is alive (term = "raise": they raised, the process stays), then the
\* platform's stop command, which on Termux is `killall tor`
StopTorProcs(ps, handle, pf, term, ot) ==
    [p \in 1..Len(ps) |->
        IF \/ p = handle /\ ps[p].alive /\ term = "ok"
           \/ pf = "termux" /\ ot = "ok"
        THEN [ps[p] EXCEPT !.alive = FALSE]
        ELSE ps[p]]

StopServiceConfigKeepingFlag(cfg) ==
    AddToHistory(cfg, [action |-> "service_stopped", site_directory |-> NoDir,
                       onion_address |-> NoAddr])

\* lines 1182-1183
StopServiceConfig(cfg) ==
    AddToHistory(SetServiceRunning(cfg, FALSE),
                 [action |-> "service_stopped", site_directory |-> NoDir,
                  onion_address |-> NoAddr])

\* _stop_file_watcher: the observers left active
StopFileWatcher(obs, handle) == obs \ {handle}

StopService ==
    /\ \E on \in Outcomes,
          term \in (IF TorAlreadyRunning THEN {"ok", "raise"} ELSE {"ok"}),
          ot \in {"ok", "fail"} :
         LET wasRunning == TorAlreadyRunning
             ng == StopNginxResult(on)
             tr == StopTorResult((wasRunning /\ term = "ok") \/ ot = "ok")
         IN  /\ BeginOp(<<<<"nginx stop", on>>, <<"tor stop", ot>>>>)
             /\ nginxRunning' = (nginxRunning /\ on # "ok")
             /\ procs' = StopTorProcs(procs, torProcess, platform, term, ot)
             /\ torProcess' = IF wasRunning THEN 0 ELSE torProcess
             /\ bootstrapProgress' = IF wasRunning THEN 0 ELSE bootstrapProgress
             /\ observers' = StopFileWatcher(observers, fileObserver)
             /\ fileObserver' = 0
             /\ config' = StopServiceConfig(config)
             /\ ret' = StopServiceResult(ng, tr)
    /\ torInstalled' = TRUE
    /\ nginxInstalled' = TRUE
    /\ pc' = "idle"
    /\ siteArg' = NoDir
    /\ UNCHANGED <<torrc, onionAddress, nObservers, orch, tcCalls>>

(***************************************************************************)
(* get_service_status, lines 1190-1212.                                    *)
(***************************************************************************)
\* the returned dictionary (lines 1202-1212) with the liveness computed at
\* line 1199; `valid` says that the call was made after the last operation
\* returned, `taken` that a dictionary was returned at all
ServiceStatus ==
    [service_running |-> config.service_running,
     tor_running |-> TorAlreadyRunning,
     bootstrap_progress |-> bootstrapProgress,
     onion_address |-> IF onionAddress # NoAddr THEN onionAddress
                       ELSE config.onion_address,
     valid |-> (pc = "idle"),
     taken |-> TRUE,
     raised |-> FALSE]

\* `self._tor_process.poll()` on a handle that is None (line 1199)
StatusRaised == [NoStatus EXCEPT !.raised = TRUE]

\* line 1199, left operand: `self._tor_process` is read and tested; when it
\* is None the rest of the function follows at once.  The call is made on
\* a thread of its own (the GUI's refresh), at any point of the caller's
\* operation; it is followed once per operation.
GetServiceStatus ==
    /\ pc \notin {"import", "import_error"}
    /\ statusPc = "idle"
    /\ ~statusSnap.taken
    /\ ~statusSnap.raised
    /\ IF torProcess = 0
       THEN /\ statusSnap' = ServiceStatus
            /\ statusPc' = "idle"
       ELSE /\ statusPc' = "poll"
            /\ UNCHANGED statusSnap
    /\ UNCHANGED <<envVars, config, torrc, nginxRunning, torProcess,
                   bootstrapProgress, onionAddress, fileObserver, observers,
                   nObservers, procs, pc, siteArg, orch, ret, stepLog, cmdLog,
                   atCall, tcCalls, nEvents>>

StatusPollCachingAddress ==
    /\ statusPc = "poll"
    /\ statusPc' = "idle"
    /\ statusSnap' = IF torProcess = 0 THEN StatusRaised ELSE ServiceStatus
    /\ onionAddress' = IF onionAddress # NoAddr THEN onionAddress
                       ELSE config.onion_address
    /\ UNCHANGED <<envVars, config, torrc, nginxRunning, torProcess,
                   bootstrapProgress, fileObserver, observers,
                   nObservers, procs, pc, siteArg, orch, ret, stepLog, cmdLog,
                   atCall, tcCalls, nEvents>>

\* line 1199, right operand: `self._tor_process` is read again for
\* `.poll()`, then the dictionary is built
StatusPoll ==
    /\ statusPc = "poll"
    /\ statusPc' = "idle"
    /\ statusSnap' = IF torProcess = 0 THEN StatusRaised ELSE ServiceStatus
    /\ UNCHANGED <<envVars, config, torrc, nginxRunning, torProcess,
                   bootstrapProgress, onionAddress, fileObserver, observers,
                   nObservers, procs, pc, siteArg, orch, ret, stepLog, cmdLog,
                   atCall, tcCalls, nEvents>>

Next ==
    \/ \E kind \in DirKinds : StartService(kind)
    \/ CreateNginxConfig
    \/ CallConfigureTor
    \/ ConfigureTorHiddenService
    \/ StartNginx
    \/ StartTorManual
    \/ TorWait
    \/ \E p \in 1..Len(procs) : MonitorRead(p)
    \/ \E p \in 1..Len(procs) : MonitorApply(p)
    \/ \E p \in 1..Len(procs) : ProcExit(p)
    \/ StopService
    \/ GetServiceStatus
    \/ StatusPoll
    \/ GetOnionAddress
    \/ ImportModule

Spec == Init /\ [][Next]_vars

\* a manager constructed where an earlier session has configured the hidden
\* service: the configuration file (ConfigManager._load_config) holds the
\* directory and the address, the torrc holds the stanza
SessionConfig(pf) ==
    [DefaultConfig EXCEPT !.site_directory = "site",
                          !.hidden_service_dir = HiddenServiceDirOf(pf),
                          !.onion_address = OnionAddr]

InitSession ==
    /\ platform \in Platforms
    /\ watchdogAvailable \in BOOLEAN
    /\ ManagerOver(SessionConfig(platform),
                   TorStanza(HiddenServiceDirOf(platform), NGINX_DEFAULT_PORT))
    /\ RunnerIdle

SpecSession == InitSession /\ [][Next]_vars

(***************************************************************************)
(* _run_privileged_command, lines 110-141, followed by itself: the calls   *)
(* made of it and set_sudo_password, in a process that is elevated or not  *)
(* and a front end that is the GUI (gui_app.py line 49) or the CLI.        *)
(***************************************************************************)
\* credentials the user may type
Passwords == {"pw1", "pw2"}

NginxStartCommand == <<"sudo", "-S", "systemctl", "start", "nginx">>

\* commands handed to the runner, as token sequences (constants.py 177,
\* 182, 158)
RunnerCommands ==
    {NginxStartCommand,
     <<"sudo", "-S", "nginx", "-t">>,
     <<"pkg", "install", "-y", "tor">>}

\* "sudo -S" in cmd
NeedsElevation(cmd) == Contains(cmd, <<"sudo", "-S">>)

\* input=None
NoStdin == <<>>

\* runs: the subprocess.run calls made, each with the command it ran
RunnerCall(cmd, executed, stdin, result, pw) ==
    [cmd |-> cmd, executed |-> executed, stdin |-> stdin, result |-> result,
     password |-> pw, runs |-> IF executed THEN <<cmd>> ELSE <<>>]

\* a caller that writes what it handed to the command into its log
CallerLogWithInput(cmd, r) ==
    {<<"Running: ">> \o cmd \o r.stdin}

\* what the caller of the runner logs (install_tor 171-188, start_nginx
\* 641-653): the command before an installation, then the outcome; the
\* text of an exception of subprocess.run names the command, "stderr" is
\* the error output of the command
CallerLog(cmd, r) ==
    (IF ~NeedsElevation(cmd) THEN {<<"Installing Tor: ">> \o cmd} ELSE {})
    \cup (IF r.result = "ok" THEN {<<"started successfully">>}
          ELSE IF r.result = "fail" THEN {<<"Failed: ", "stderr">>}
          ELSE IF r.result = "no_password"
          THEN {<<"Error: ", "Sudo password not set for GUI mode">>}
          ELSE {<<"Error: ", "Command ">> \o cmd \o <<" timed out">>})

\* a runner that runs the command whoever calls it
RunPrivilegedResultUnguarded(cmd, elev, gui, pw, typed, out) ==
    RunnerCall(cmd, TRUE,
               IF NeedsElevation(cmd) /\ ~elev /\ pw # NoPassword
               THEN <<pw, "\n">> ELSE NoStdin,
               out, pw)

\* a runner that runs a command again when it exits non-zero
RunPrivilegedResultRetrying(cmd, elev, gui, pw, typed, out) ==
    [cmd |-> cmd, executed |-> TRUE,
     stdin |-> IF NeedsElevation(cmd) /\ ~elev /\ pw # NoPassword
               THEN <<pw, "\n">> ELSE NoStdin,
     result |-> out, password |-> pw,
     runs |-> IF out = "fail" THEN <<cmd, cmd>> ELSE <<cmd>>]

\* one call: whether subprocess.run is reached, the text on its standard
\* input, how the call ends (out is what subprocess.run does) and the
\* credential cached afterwards (typed is what getpass returns)
RunPrivilegedResult(cmd, elev, gui, pw, typed, out) ==
    IF NeedsElevation(cmd) /\ ~elev
    THEN IF pw = NoPassword /\ gui
         THEN RunnerCall(cmd, FALSE, NoStdin, "no_password", pw)
         ELSE LET p == IF pw = NoPassword THEN typed ELSE pw
              IN  RunnerCall(cmd, TRUE, <<p, "\n">>, out, p)
    ELSE RunnerCall(cmd, TRUE, NoStdin, out, pw)

\* what the caller of the runner returns to its own caller: start_nginx
\* for the start command (lines 641-653), install_tor for the installation
\* (lines 174-188); the runner's exception is caught by both
CallerReturns(cmd, result) ==
    LET o == IF result \in {"ok", "fail"} THEN result ELSE "raise"
    IN  IF cmd = NginxStartCommand
        THEN StartNginxResult(o)
        ELSE IF o = "ok" THEN [ok |-> TRUE, msg |-> <<"Tor installed successfully!">>]
        ELSE IF o = "fail" THEN [ok |-> FALSE, msg |-> <<"Failed to install Tor: ", "stderr">>]
        ELSE [ok |-> FALSE, msg |-> <<"Error: ", "exception">>]

managerVars == <<platform, watchdogAvailable, torInstalled, nginxInstalled,
                 config, torrc, nginxRunning, torProcess, bootstrapProgress,
                 onionAddress, fileObserver, observers, nObservers, procs, pc,
                 siteArg, orch, ret, statusSnap, statusPc, stepLog, cmdLog,
                 atCall, tcCalls, nginxConfig, startThreads>>

RunPrivilegedCommand ==
    /\ pc = "idle"
    /\ nEvents < MaxEvents
    /\ nEvents' = nEvents + 1
    /\ \E cmd \in RunnerCommands, out \in Outcomes :
       \E typed \in (IF NeedsElevation(cmd) /\ ~elevated /\ ~isGui
                         /\ sudoPassword = NoPassword
                      THEN Passwords ELSE {NoPassword}) :
         LET r == RunPrivilegedResult(cmd, elevated, isGui, sudoPassword, typed, out)
         IN  /\ runLog' = Append(runLog, [by |-> "runner", cmd |-> r.cmd,
                                          executed |-> r.executed,
                                          runs |-> r.runs,
                                          returned |-> CallerReturns(cmd, r.result),
                                          stdin |-> r.stdin, result |-> r.result])
             /\ sudoPassword' = r.password
             /\ logFile' = logFile \cup CallerLog(cmd, r)
    /\ UNCHANGED <<managerVars, isGui, elevated>>

\* set_sudo_password, lines 66-68
SetSudoPassword ==
    /\ pc = "idle"
    /\ nEvents < MaxEvents
    /\ nEvents' = nEvents + 1
    /\ \E p \in Passwords : sudoPassword' = p
    /\ UNCHANGED <<managerVars, isGui, elevated, runLog, logFile>>

\* start_tor_manual, lines 746-814, on Linux, as far as the credential
\* goes: the two commands are logged, the verification is run with the
\* cached credential on its standard input and the credential is written
\* to the standard input of the spawned daemon.  ov is what the
\* verification does: a non-zero exit is logged with the command's output
\* and ends the call, an exception other than a time-out is logged and
\* the daemon is spawned all the same.
TorVerifyCommand == <<"sudo", "-u", "tor", "tor", "--verify-config">>

TorCommand == <<"sudo", "-u", "tor", "tor", "-f", "torrc">>

TorStdin(pw) == IF pw # NoPassword THEN <<pw, "\n">> ELSE NoStdin

TorCommandsLog(ov) ==
    {<<"Starting Tor with command: ">> \o TorCommand,
     <<"Validating Tor config: ">> \o TorVerifyCommand}
    \cup (IF ov = "fail" THEN {<<"Tor config validation failed: ", "stderr">>}
          ELSE IF ov = "raise" THEN {<<"Could not validate Tor config: ", "exception">>}
          ELSE {})

TorCommandsWithCredential ==
    /\ pc = "idle"
    /\ IsLinux(platform)
    /\ nEvents < MaxEvents
    /\ nEvents' = nEvents + 1
    /\ \E ov \in Outcomes :
         LET verify == [by |-> "start_tor_manual", cmd |-> TorVerifyCommand,
                        executed |-> TRUE, runs |-> <<TorVerifyCommand>>,
                        returned |-> [ok |-> ov # "fail", msg |-> <<>>],
                        stdin |-> TorStdin(sudoPassword), result |-> ov]
             spawn == [by |-> "start_tor_manual", cmd |-> TorCommand,
                       executed |-> TRUE, runs |-> <<TorCommand>>,
                       returned |-> [ok |-> TRUE, msg |-> <<>>],
                       stdin |-> TorStdin(sudoPassword), result |-> "ok"]
         IN  /\ runLog' = runLog \o <<verify>>
                              \o (IF ov = "fail" THEN <<>> ELSE <<spawn>>)
             /\ logFile' = logFile \cup TorCommandsLog(ov)
    /\ UNCHANGED <<managerVars, sudoPassword, isGui, elevated>>

InitRunner ==
    /\ ManagerInit
    /\ sudoPassword = NoPassword
    /\ isGui \in BOOLEAN
    /\ elevated \in BOOLEAN
    /\ runLog = <<>>
    /\ logFile = {}
    /\ nginxConfig = NotRendered
    /\ startThreads = NoThreads

NextRunner ==
    \/ ImportModule
    \/ SetSudoPassword
    \/ RunPrivilegedCommand
    \/ TorCommandsWithCredential
    \/ StopService

SpecRunner == InitRunner /\ [][NextRunner]_vars

(***************************************************************************)
(* Setting and validating the proxy port: save_port_config of the GUI      *)
(* (gui_app.py 963-975), `config set nginx_port <value>` of the CLI        *)
(* (cli_interface.py 512-577) and ConfigManager.validate_config (391-411). *)
(* A text is a sequence of characters.                                     *)
(***************************************************************************)
MIN_PORT == 1024
MAX_PORT == 65535

DigitChars == <<"0", "1", "2", "3", "4", "5", "6", "7", "8", "9">>

DigitValue(c) == CHOOSE d \in 0..9 : DigitChars[d + 1] = c

\* str.isdigit()
IsDigitText(t) ==
    /\ t # <<>>
    /\ \A i \in 1..Len(t) : \E d \in 1..10 : DigitChars[d] = t[i]

RECURSIVE DigitsValue(_)
DigitsValue(t) ==
    IF t = <<>> THEN 0
    ELSE 10 * DigitsValue(SubSeq(t, 1, Len(t) - 1)) + DigitValue(t[Len(t)])

\* int(text): an optional sign and decimal digits, else ValueError
Unsigned(t) == IF t # <<>> /\ t[1] \in {"-", "+"} THEN Tail(t) ELSE t

ParsesAsInt(t) == IsDigitText(Unsigned(t))

IntOf(t) ==
    IF t # <<>> /\ t[1] = "-" THEN 0 - DigitsValue(Unsigned(t))
    ELSE DigitsValue(Unsigned(t))

\* what the user may type as a port
PortTexts ==
    {<<"8", "0">>, <<"1", "0", "2", "3">>, <<"1", "0", "2", "4">>,
     <<"9", "0", "9", "0">>, <<"6", "5", "5", "3", "5">>,
     <<"6", "5", "5", "3", "6">>, <<"-", "5">>, <<"a", "b", "c">>, <<>>}

\* nginx_port when the stored value is a string and not an integer
StoredText == 0 - 1

\* the range test of the GUI (line 966) and of validate_config (line 407)
PortInRange(p) == ~(p < MIN_PORT \/ p > MAX_PORT)

\* save_port_config: the port stored, or none when the text is refused
SavePortResult(t) ==
    IF ParsesAsInt(t) /\ PortInRange(IntOf(t))
    THEN [ok |-> TRUE, port |-> IntOf(t), msg |-> <<"Nginx port set to ", t>>]
    ELSE IF ParsesAsInt(t)
    THEN [ok |-> FALSE, port |-> StoredText,
          msg |-> <<"Port must be between 1024 and 65535">>]
    ELSE [ok |-> FALSE, port |-> StoredText, msg |-> <<"invalid literal for int()">>]

\* `config set nginx_port <text>`: the generic branch of do_config turns a
\* text of digits into an integer, keeps any other text as a string, and
\* stores the value (lines 566-577); without a value the usage is printed
ConfigSetResult(t) ==
    IF t = <<>>
    THEN [ok |-> FALSE, stored |-> FALSE, port |-> StoredText,
          msg |-> <<"Usage: config set <key> <value>">>]
    ELSE [ok |-> TRUE, stored |-> TRUE,
          port |-> IF IsDigitText(t) THEN IntOf(t) ELSE StoredText,
          msg |-> <<"Set nginx_port = ", t>>]

\* validate_config, lines 405-409, on the stored value
ValidateConfigResult(p) == p # StoredText /\ PortInRange(p)

ConfigOp(r) ==
    /\ BeginOp(<<>>)
    /\ ret' = r
    /\ torInstalled' = TRUE
    /\ nginxInstalled' = TRUE
    /\ siteArg' = NoDir
    /\ pc' = "idle"
    /\ UNCHANGED <<torrc, nginxRunning, torProcess, bootstrapProgress,
                   onionAddress, fileObserver, observers, nObservers, procs,
                   orch, tcCalls>>

SavePortConfig ==
    \E t \in PortTexts :
      LET r == SavePortResult(t)
      IN  /\ ConfigOp(Ret("save_port_config", r.ok, r.msg, NoAddr))
          /\ config' = IF r.ok THEN [config EXCEPT !.nginx_port = r.port] ELSE config

DoConfigSetPort ==
    \E t \in PortTexts :
      LET r == ConfigSetResult(t)
      IN  /\ ConfigOp(Ret("config_set", r.ok, r.msg, NoAddr))
          /\ config' = IF r.stored THEN [config EXCEPT !.nginx_port = r.port] ELSE config

ValidateConfig ==
    /\ ConfigOp(Ret("validate_config", ValidateConfigResult(config.nginx_port), <<>>, NoAddr))
    /\ UNCHANGED config

NextPort ==
    \/ ImportModule
    \/ SavePortConfig
    \/ DoConfigSetPort
    \/ ValidateConfig

SpecPort == Init /\ [][NextPort]_vars

(***************************************************************************)
(* The text of the proxy configuration: NGINX_CONFIG_TEMPLATE.format       *)
(* (constants.py 61-83, onion_service.py 387-391) and the way nginx reads  *)
(* a directive back: statements end at `;`, `{` or `}`, the words of a     *)
(* statement are separated by blanks, the first word names the directive.  *)
(* A text is a sequence of tokens; a path is several tokens.               *)
(***************************************************************************)
\* NGINX_CONFIG_TEMPLATE with its three fields filled by texts
NginxConfigTemplate(port, root, log) ==
    <<"server", " ", "{", "\n">>
    \o <<" ", "listen", " ", "127.0.0.1", ":">> \o port \o <<";", "\n">>
    \o <<" ", "server_name", " ", "localhost", ";", "\n">>
    \o <<" ", "server_tokens", " ", "off", ";", "\n">>
    \o <<" ", "add_header", " ", "X-Frame-Options", " ", "SAMEORIGIN", " ", "always", ";", "\n">>
    \o <<" ", "add_header", " ", "Referrer-Policy", " ", "no-referrer", " ", "always", ";", "\n">>
    \o <<" ", "root", " ">> \o root \o <<";", "\n">>
    \o <<" ", "index", " ", "index.html", " ", "index.htm", ";", "\n">>
    \o <<" ", "location", " ", "/", " ", "{", "\n">>
    \o <<" ", "try_files", " ", "$uri", " ", "$uri/", " ", "=404", ";", "\n">>
    \o <<" ", "}", "\n">>
    \o <<" ", "access_log", " ", "off", ";", "\n">>
    \o <<" ", "error_log", " ">> \o log \o <<";", "\n">>
    \o <<"}", "\n">>

\* a rendering that writes the default port whatever port is given
NginxConfigTextDefaultPort(port, root, log) ==
    NginxConfigTemplate(DecimalText(NGINX_DEFAULT_PORT), root, log)

\* NGINX_CONFIG_TEMPLATE.format(port=port, root_dir=..., error_log=...)
NginxConfigText(port, root, log) ==
    NginxConfigTemplate(DecimalText(port), root, log)

IsBlank(tok) == tok \in {" ", "\n"}

IsEnd(tok) == tok \in {";", "{", "}"}

\* the statement that starts at position i: its tokens up to the next end
RECURSIVE StatementAt(_, _)
StatementAt(text, i) ==
    IF i > Len(text) \/ IsEnd(text[i]) THEN <<>>
    ELSE <<text[i]>> \o StatementAt(text, i + 1)

\* the words of a statement: maximal runs of tokens without a blank
RECURSIVE Words(_)
Words(st) ==
    IF st = <<>> THEN <<>>
    ELSE IF IsBlank(st[1]) THEN Words(Tail(st))
    ELSE LET ws == Words(Tail(st))
         IN  IF Len(st) > 1 /\ ~IsBlank(st[2])
             THEN <<<<st[1]>> \o ws[1]>> \o Tail(ws)
             ELSE <<<<st[1]>>>> \o ws

\* the statements of the text, each as its words
RECURSIVE StatementsFrom(_, _)
StatementsFrom(text, i) ==
    IF i > Len(text) THEN <<>>
    ELSE LET st == StatementAt(text, i)
         IN  <<Words(st)>> \o StatementsFrom(text, i + Len(st) + 1)

\* the arguments of the first statement whose first word is `name`
DirectiveArgs(text, name) ==
    LET sts == StatementsFrom(text, 1)
        hits == {k \in 1..Len(sts) : sts[k] # <<>> /\ sts[k][1] = <<name>>}
    IN  IF hits = {} THEN <<>>
        ELSE Tail(sts[CHOOSE k \in hits : \A j \in hits : k <= j])

\* the port of `listen <address>:<port>`: the digits after the colon
ListenPort(text) ==
    LET args == DirectiveArgs(text, "listen")
        a == IF args = <<>> THEN <<>> ELSE args[1]
        colon == {k \in 1..Len(a) : a[k] = ":"}
    IN  IF colon = {} THEN 0 - 1
        ELSE LET c == CHOOSE k \in colon : \A j \in colon : j <= k
                 digits == SubSeq(a, c + 1, Len(a))
             IN  IF IsDigitText(digits) THEN DigitsValue(digits) ELSE 0 - 1

\* the path of `root <path>`, when the directive has its one argument
RootPath(text) ==
    LET args == DirectiveArgs(text, "root")
    IN  IF Len(args) = 1 THEN args[1] ELSE <<>>

\* ports of the valid range, its two ends included
RenderPorts == {MIN_PORT, 1025, 3000, 5000, NGINX_DEFAULT_PORT, 8081, 9090,
                10000, 65534, MAX_PORT}

\* document roots: the one the code uses (line 360) and other paths
RenderRoots ==
    {<<"/", "var", "/", "www", "/", "html">>,
     <<"/", "srv", "/", "listen", "/", "root">>,
     <<"/", "data", "/", "www", "/", "8080">>}

\* error logs: config.log_file.parent / "nginx-error.log"
RenderLogs ==
    {<<"/", "root", "/", ".onion-hoster", "/", "logs", "/", "nginx-error.log">>,
     <<"/", "home", "/", "user", "/", ".onion-hoster", "/", "logs", "/", "nginx-error.log">>}

InitRender ==
    /\ ManagerInit
    /\ sudoPassword = NoPassword
    /\ isGui = FALSE
    /\ elevated = TRUE
    /\ runLog = <<>>
    /\ logFile = {}
    /\ nginxConfig \in [port : RenderPorts, root : RenderRoots, log : RenderLogs,
                        text : {<<>>}]
    /\ startThreads = NoThreads

RenderNginxConfig ==
    /\ pc = "idle"
    /\ nginxConfig.text = <<>>
    /\ nginxConfig' = [nginxConfig EXCEPT
                         !.text = NginxConfigText(nginxConfig.port, nginxConfig.root,
                                                  nginxConfig.log)]
    /\ UNCHANGED <<platform, watchdogAvailable, torInstalled, nginxInstalled,
                   config, torrc, nginxRunning, torProcess, bootstrapProgress,
                   onionAddress, fileObserver, observers, nObservers, procs, pc,
                   siteArg, orch, ret, statusSnap, statusPc, stepLog, cmdLog,
                   atCall, tcCalls, nEvents, runnerVars, startThreads>>

NextRender ==
    \/ ImportModule
    \/ RenderNginxConfig

SpecRender == InitRender /\ [][NextRender]_vars

(***************************************************************************)
(* ConfigManager.add_to_history, lines 233-251, called again and again on  *)
(* a configuration whose history an earlier session has filled.  A record  *)
(* is modelled without its timestamp.                                      *)
(***************************************************************************)
\* the records start_service and stop_service append
HistoryEntries ==
    {[action |-> "service_started", site_directory |-> "site", onion_address |-> OnionAddr],
     [action |-> "service_stopped", site_directory |-> NoDir, onion_address |-> NoAddr]}

\* a history of n records, a start and a stop in turn
SavedHistory(n) ==
    [i \in 1..n |->
        IF i % 2 = 1
        THEN [action |-> "service_started", site_directory |-> "site",
              onion_address |-> OnionAddr]
        ELSE [action |-> "service_stopped", site_directory |-> NoDir,
              onion_address |-> NoAddr]]

InitHistory ==
    /\ platform \in Platforms
    /\ watchdogAvailable \in BOOLEAN
    /\ \E n \in {0, HISTORY_CAP - 2, HISTORY_CAP - 1, HISTORY_CAP} :
         ManagerOver([DefaultConfig EXCEPT !.history = SavedHistory(n)], <<>>)
    /\ RunnerIdle

AddToHistoryCall ==
    \E entry \in HistoryEntries :
      /\ ConfigOp(Ret("add_to_history", TRUE, <<>>, NoAddr))
      /\ config' = AddToHistory(config, entry)

NextHistory ==
    \/ ImportModule
    \/ AddToHistoryCall

SpecHistory == InitHistory /\ [][NextHistory]_vars

(***************************************************************************)
(* Properties.                                                             *)
(***************************************************************************)
StrictlyIncreasing(s) == \A i \in 1..(Len(s) - 1) : s[i] < s[i + 1]

LastOf(s) == s[Len(s)]

\* the command `name` was handed to the runner in the current step
IssuedCmd(name) == \E i \in 1..Len(cmdLog) : cmdLog[i][1] = name

MaxOf(s) == CHOOSE m \in {s[i] : i \in 1..Len(s)} : \A i \in 1..Len(s) : s[i] <= m

C2_TwoCallsOneStanza ==
    tcCalls >= 2 => StanzaCount(torrc, HiddenServiceDirOf(platform)) = 1

\* start_service returned because the wait for the bootstrap timed out
BootstrapTimedOut ==
    /\ ret.op = "start_service"
    /\ ~ret.ok
    /\ Len(ret.msg) >= 2
    /\ ret.msg[1] = "Failed to start Tor: "
    /\ ret.msg[2] \in {"Tor bootstrap timed out. Errors: ", "Tor bootstrap timed out at "}

\* C3: when start_service returns because the bootstrap did not complete
\* (the wait timed out), it has issued the command that stops nginx and
\* nginx is not left running.
C3_TimeoutStopsNginx ==
    BootstrapTimedOut => IssuedCmd("nginx stop") /\ ~nginxRunning

\* the command `name` was handed to the runner in the current step and
\* ended as `how`
IssuedWith(name, how) ==
    \E i \in 1..Len(cmdLog) : cmdLog[i] = <<name, how>>

Mentions(msg, token) == \E i \in 1..Len(msg) : msg[i] = token

\* C4: whatever its sub-steps return, stop_service stops the file watcher,
\* clears the persisted service_running flag and appends a
\* 'service_stopped' history entry, and a status taken after it reports
\* service_running false.
C4_StopAlwaysClears ==
    ret.op = "stop_service" =>
        /\ fileObserver = 0
        /\ ~config.service_running
        /\ Len(config.history) = Len(atCall.config.history) + 1
        /\ LastOf(config.history).action = "service_stopped"
        /\ statusSnap.valid => ~statusSnap.service_running

\* stop_service of a running service, one sub-step failing, status taken
C4_Witness ==
    /\ ret.op = "stop_service"
    /\ ~ret.ok
    /\ atCall.config.service_running
    /\ statusSnap.valid

\* C5: when the nginx stop command exits non-zero (and the stop of the
\* daemon succeeds) stop_service returns failure with an aggregated
\* message that mentions nginx.
C5_NonZeroExitFails ==
    (ret.op = "stop_service" /\ IssuedWith("nginx stop", "fail"))
    => ~ret.ok /\ Mentions(ret.msg, "Nginx: ")

\* C5 (as the code has it): stop_service fails exactly when the nginx stop
\* command could not be run to its end (the runner raised); the message
\* then starts "Errors occurred: " and names nginx.  A non-zero exit code
\* counts as stopped.  Either way the daemon's stop is issued, the watcher
\* is stopped and the flag is cleared: failures are collected.
C5_StopCollectsFailures ==
    ret.op = "stop_service" =>
        /\ ret.ok <=> ~IssuedWith("nginx stop", "raise")
        /\ ~ret.ok => ret.msg[1] = "Errors occurred: " /\ Mentions(ret.msg, "Nginx: ")
        /\ IssuedCmd("tor stop")
        /\ fileObserver = 0
        /\ ~config.service_running

\* stop_service whose nginx stop raised
C5_Witness ==
    ret.op = "stop_service" /\ IssuedWith("nginx stop", "raise") /\ ~ret.ok

\* C6: start_service on a directory that is missing, is not a directory or
\* has no index file returns the validation error without having issued a
\* command, run a step or changed the persisted configuration.
C6_InvalidDirectoryNoEffect ==
    (ret.op = "start_service" /\ siteArg # "site") =>
        /\ ~ret.ok
        /\ ret.addr = NoAddr
        /\ cmdLog = <<>>
        /\ stepLog = <<>>
        /\ config = atCall.config
        /\ torrc = atCall.torrc
        /\ Len(procs) = atCall.nprocs
        /\ nginxRunning = atCall.nginxRunning

\* start_service returned on a directory without an index file while a
\* configuration of an earlier call was in place
C6_Witness ==
    /\ ret.op = "start_service"
    /\ siteArg = "noindex"
    /\ ~ret.ok
    /\ config.hidden_service_dir # <<>>

\* C7: start_service called where tor or nginx is not installed returns a
\* missing-dependency failure before it runs a step, issues a command or
\* changes the torrc.
C7_MissingDependencyNoCommand ==
    (/\ orch \/ ret.op = "start_service"
     /\ siteArg = "site"
     /\ ~(torInstalled /\ nginxInstalled))
    => /\ cmdLog = <<>>
       /\ stepLog = <<>>
       /\ torrc = atCall.torrc
       /\ fileObserver = 0

\* C8: the steps of start_service run in the order create_nginx_config,
\* configure_tor_hidden_service, start_nginx, start_tor_manual, each only
\* after every earlier one succeeded; the daemon is waited for only after
\* three successes; a failed step is the last one, and a call that failed
\* before start_tor_manual spawned no daemon, one that failed before
\* start_nginx left nginx as it was, one that failed in
\* create_nginx_config left the torrc and the hidden-service directory
\* setting as they were.
C8_StepsGated ==
    /\ Len(stepLog) <= Len(StepOrder)
    /\ \A i \in 1..Len(stepLog) :
         /\ stepLog[i][1] = StepOrder[i]
         /\ i < Len(stepLog) => stepLog[i][2]
    /\ pc = "wait" => Len(stepLog) = 3 /\ stepLog[3][2]
    /\ (ret.op = "start_service" /\ Len(stepLog) < 4) =>
         /\ ~ret.ok
         /\ Len(procs) = atCall.nprocs
         /\ Len(stepLog) < 3 => nginxRunning = atCall.nginxRunning
         /\ Len(stepLog) < 2 =>
              /\ torrc = atCall.torrc
              /\ config.hidden_service_dir = atCall.config.hidden_service_dir

\* start_service stopped by a failure of configure_tor_hidden_service on a
\* torrc that had no stanza yet
C8_Witness ==
    /\ ret.op = "start_service"
    /\ Len(stepLog) = 2
    /\ ~stepLog[2][2]
    /\ torrc = <<>>

\* the address was read from the hostname file in the current step
AddressRead == IssuedWith("cat hostname", "ok")

\* C9: when start_tor_manual reports success and the address can be read,
\* start_service returns success with the address, and whenever it returns
\* success the address is not null, the persisted onion_address is that
\* address, service_running is persisted true, the last history entry is
\* 'service_started' with the directory and the address, and a status
\* taken afterwards reports service_running true and the same address.
C9_StartSuccessPersists ==
    /\ (/\ ret.op = "start_service"
        /\ Len(stepLog) = 4
        /\ stepLog[4][2]
        /\ AddressRead) => ret.ok
    /\ (ret.op = "start_service" /\ ret.ok) =>
         /\ ret.addr = OnionAddr
         /\ config.onion_address = ret.addr
         /\ config.service_running
         /\ Len(config.history) = Len(atCall.config.history) + 1
         /\ LastOf(config.history) =
              [action |-> "service_started", site_directory |-> siteArg,
               onion_address |-> ret.addr]
         /\ statusSnap.valid =>
              /\ statusSnap.service_running
              /\ statusSnap.onion_address = ret.addr

\* a start that saw 100%, read the address and was followed by a status
C9_Witness ==
    /\ ret.op = "start_service"
    /\ ret.ok
    /\ torProcess # 0
    /\ procs[torProcess].complete
    /\ statusSnap.valid

\* C10: when the bootstrap reached 100% but the address could not be read,
\* start_service returns success with a null address.
C10_UnreadableAddressSuccess ==
    (/\ ret.op = "start_service"
     /\ Len(stepLog) = 4
     /\ stepLog[4][2]
     /\ torProcess # 0
     /\ procs[torProcess].complete
     /\ ret.addr = NoAddr)
    => ret.ok

\* C11: start_tor_manual reports success only if the reader of the daemon
\* the handle points at has seen `Bootstrapped 100%`: when the step
\* succeeded the handle's daemon completed its bootstrap and the recorded
\* percentage is 100.
C11_SuccessOnlyAtHundred ==
    (/\ ret.op = "start_service"
     /\ Len(stepLog) = 4
     /\ stepLog[4][2])
    => /\ torProcess # 0
       /\ procs[torProcess].complete
       /\ bootstrapProgress = 100

\* C12: a get_service_status call that runs while the caller starts or
\* stops the service never raises: it always returns a dictionary.
C12_StatusNeverRaises == ~statusSnap.raised

\* C13: a step of get_service_status changes nothing but the calling
\* thread's own position and result: the persisted configuration, the
\* daemon handle, the recorded percentage, the cached address, the watcher,
\* the torrc, nginx and the daemons stay as they are and no command is
\* issued.
C13_StatusIsPureRead ==
    [][(statusPc' # statusPc \/ (statusSnap'.taken /\ ~statusSnap.taken))
       => UNCHANGED <<config, torProcess, bootstrapProgress, onionAddress,
                      fileObserver, observers, nObservers, torrc, nginxRunning,
                      procs, cmdLog, pc, ret>>]_vars

\* a status returned for a manager with a persisted address, a live daemon
\* and an active watcher
C13_Witness ==
    /\ statusSnap.taken
    /\ statusSnap.tor_running
    /\ statusSnap.onion_address # NoAddr
    /\ fileObserver # 0

\* C14: while the daemon handle stays the same (one daemon run) the recorded
\* bootstrap percentage stays in 0..100 and no step lowers it.
C14_ProgressMonotonic ==
    [][(torProcess # 0 /\ torProcess' = torProcess)
       => /\ bootstrapProgress' \in 0..100
          /\ bootstrapProgress' >= bootstrapProgress]_vars

\* C15: once the manager holds a non-null onion address no step replaces
\* it by another value or resets it to null.
C15_AddressImmutable ==
    [][onionAddress # NoAddr => onionAddress' = onionAddress]_vars

\* C16: after stop_service has returned no watcher subscription started by
\* this manager is active, whatever start_service calls came before.
C16_StopLeavesNoWatcher ==
    ret.op = "stop_service" => observers = {}

\* C17: a watcher is started only by a step taken after the bootstrap
\* monitor of the running daemon has reached 100%, so that a start_service
\* call failing at an earlier step leaves no watcher of its own behind.
C17_WatcherOnlyAfterReady ==
    [][nObservers' > nObservers
       => pc = "tor_wait" /\ torProcess # 0 /\ procs[torProcess].complete]_vars

\* C18: without the watchdog package the module that holds the service
\* manager still loads.
C18_LoadsWithoutWatchdog ==
    ~watchdogAvailable => pc # "import_error"

\* C19: a configure_tor_hidden_service call in which the ownership of the
\* hidden-service directory could not be set fails and appends no stanza.
C19_OwnershipFailureFails ==
    (ret.op = "configure_tor_hidden_service"
     /\ IssuedWith("chown hidden_service_dir", "fail"))
    => ~ret.ok /\ torrc = atCall.torrc

\* C20: a call of the runner with a command holding `sudo -S`, in a process
\* that is not elevated: with no credential cached and the GUI as caller it
\* ends with the missing-credential error and subprocess.run is not
\* reached; with a credential cached the command is run with that
\* credential and a newline on its standard input.
C20_ElevationRequired ==
    [][Len(runLog') > Len(runLog)
       => LET c == runLog'[Len(runLog')]
          IN  /\ (NeedsElevation(c.cmd) /\ ~elevated /\ sudoPassword = NoPassword /\ isGui)
                 => (c.result = "no_password" /\ ~c.executed)
              /\ (NeedsElevation(c.cmd) /\ ~elevated /\ sudoPassword # NoPassword)
                 => (c.executed /\ c.stdin = <<sudoPassword, "\n">>)]_vars

C20_Witness ==
    /\ isGui
    /\ ~elevated
    /\ \E i, j \in 1..Len(runLog) :
         /\ i < j
         /\ ~runLog[i].executed /\ runLog[i].result = "no_password"
         /\ runLog[j].executed /\ runLog[j].stdin = <<sudoPassword, "\n">>
         /\ NeedsElevation(runLog[j].cmd)

HoldsCredential(text) == \E p \in Passwords : Mentions(text, p)

\* C21: no log message, no persisted configuration value and no history
\* record holds the credential, whatever was cached, typed or handed to a
\* command before.
C21_CredentialNeverPersisted ==
    /\ \A m \in logFile : ~HoldsCredential(m)
    /\ config.site_directory \notin Passwords
    /\ config.onion_address \notin Passwords
    /\ ~HoldsCredential(config.hidden_service_dir)
    /\ \A i \in 1..Len(config.history) :
         /\ config.history[i].action \notin Passwords
         /\ config.history[i].site_directory \notin Passwords
         /\ config.history[i].onion_address \notin Passwords

\* a credential was handed to a command and to the daemon's commands, the
\* callers have logged, and stop_service has written the configuration
C21_Witness ==
    /\ sudoPassword \in Passwords
    /\ \E i, j \in 1..Len(runLog) :
         /\ runLog[i].by = "runner" /\ HoldsCredential(runLog[i].stdin)
         /\ runLog[j].by = "start_tor_manual" /\ HoldsCredential(runLog[j].stdin)
    /\ logFile # {}
    /\ config.history # <<>>

\* the runner's calls so far ran their command at most once, and no
\* command is issued twice by the stop_service that has just returned
NoCommandRepeated ==
    /\ \A i \in 1..Len(runLog) :
         runLog[i].by = "runner" =>
            /\ Len(runLog[i].runs) <= 1
            /\ \A k \in 1..Len(runLog[i].runs) : runLog[i].runs[k] = runLog[i].cmd
    /\ \A i, j \in 1..Len(cmdLog) : cmdLog[i][1] = cmdLog[j][1] => i = j

\* a command of start_nginx or install_tor that did not exit 0 makes the
\* function return failure
StartFailureReported ==
    \A i \in 1..Len(runLog) :
        (runLog[i].by = "runner" /\ runLog[i].result # "ok") => ~runLog[i].returned.ok

\* C22: the runner runs the command of a call at most once, the steps
\* issue their command once, and a command that fails (non-zero exit or an
\* exception of the runner) is reported as a failure by start_nginx,
\* install_tor and stop_service's stop of nginx.
C22_NoRetryFailureReported ==
    /\ NoCommandRepeated
    /\ StartFailureReported
    /\ (ret.op = "stop_service" /\ ~IssuedWith("nginx stop", "ok")) => ~ret.ok

\* C22 (as the code has it): no command is run twice; start_nginx and
\* install_tor return failure for a non-zero exit and for an exception of
\* the runner; stop_nginx returns failure only for an exception and
\* reports a non-zero exit as 'Nginx stopped.'.
C22_NoRetry ==
    /\ NoCommandRepeated
    /\ StartFailureReported
    /\ ret.op = "stop_service" =>
         /\ IssuedWith("nginx stop", "raise") => ~ret.ok
         /\ IssuedWith("nginx stop", "fail") => ret.ok

\* a start command that failed once and was reported, and a stop_service
\* whose nginx stop raised
C22_Witness ==
    /\ \E i \in 1..Len(runLog) :
         /\ runLog[i].cmd = NginxStartCommand
         /\ runLog[i].result = "fail"
         /\ runLog[i].runs = <<NginxStartCommand>>
         /\ ~runLog[i].returned.ok
    /\ ret.op = "stop_service"
    /\ IssuedWith("nginx stop", "raise")
    /\ ~ret.ok

\* C23: a port that one of the front ends has accepted and stored is an
\* integer of 1024..65535, and validate_config accepts the stored value.
C23_PortValidated ==
    (ret.op \in {"save_port_config", "config_set"} /\ ret.ok)
    => config.nginx_port \in MIN_PORT..MAX_PORT

C25_HistoryKeepsMostRecent ==
    [][ret'.op = "add_to_history" =>
        LET h == config.history
            k == config'.history
            d == Len(h) + 1 - Len(k)
        IN  /\ Len(k) <= HISTORY_CAP
            /\ Len(h) <= HISTORY_CAP
            /\ d = (IF Len(h) = HISTORY_CAP THEN 1 ELSE 0)
            /\ \A i \in 1..(Len(k) - 1) : k[i] = h[i + d]
            /\ k[Len(k)] \in HistoryEntries]_vars

\* a full history to which a record was added twice
C25_Witness ==
    /\ ret.op = "add_to_history"
    /\ nEvents >= 2
    /\ Len(atCall.config.history) = HISTORY_CAP
    /\ Len(config.history) = HISTORY_CAP
    /\ config.history # atCall.config.history

(***************************************************************************)
(* configure_tor_hidden_service over a daemon configuration file that      *)
(* already has content when the manager is constructed.                    *)
(***************************************************************************)
\* a hidden-service directory of another service, whose path begins with
\* the path of this manager's service directory
OtherServiceDir(pf) == HiddenServiceDirOf(pf) \o <<"_old">>

OtherServicePort == 9090

\* the commented example of the distribution's configuration file
SampleTorrc ==
    <<"#", "HiddenServiceDir", " ", "/var/lib/tor/", "hidden_service", "/", "\n",
      "#", "HiddenServicePort", " ", "80", " ", "127.0.0.1:", "8", "0", "\n">>

\* a configuration file that sets no hidden service
PlainTorrc == <<"SocksPort", " ", "9050", "\n">>

\* the contents the file can have before the first call
ExistingTorrcs(pf) ==
    {<<>>,
     PlainTorrc,
     SampleTorrc,
     TorStanza(OtherServiceDir(pf), OtherServicePort),
     TorStanza(HiddenServiceDirOf(pf), NGINX_DEFAULT_PORT)}

InitTorrc ==
    /\ platform \in Platforms
    /\ watchdogAvailable \in BOOLEAN
    /\ \E text \in ExistingTorrcs(platform) : ManagerOver(DefaultConfig, text)
    /\ RunnerIdle

NextTorrc ==
    \/ ImportModule
    \/ CallConfigureTor
    \/ ConfigureTorHiddenService

SpecTorrc == InitTorrc /\ [][NextTorrc]_vars

\* the text is a prefix of the longer text
IsPrefix(short, long) ==
    /\ Len(short) <= Len(long)
    /\ SubSeq(long, 1, Len(short)) = short

\* what follows the prefix of length n
Appended(n, long) == SubSeq(long, n + 1, Len(long))

\* C26: configure_tor_hidden_service only appends to the daemon
\* configuration file: across every step of a call the previous content of
\* the file is a prefix of the new content, and what was appended is empty
\* or exactly one hidden-service stanza, the one of the service directory
C26_OnlyAppends ==
    [][pc = "tor_config" =>
         /\ IsPrefix(torrc, torrc')
         /\ Appended(Len(torrc), torrc') \in
                {<<>>, TorStanza(HiddenServiceDirOf(platform), config.nginx_port)}]_vars

\* a call made over a file with content has appended the stanza after it
C26_Witness ==
    /\ ret.op = "configure_tor_hidden_service"
    /\ ret.ok
    /\ torrc = PlainTorrc \o TorStanza(HiddenServiceDirOf(platform), config.nginx_port)

\* C27: when configure_tor_hidden_service returns success, the daemon
\* configuration holds a stanza whose HiddenServiceDir is exactly the
\* service directory, whatever else the file mentioned before the call
C27_SuccessMeansStanza ==
    (ret.op = "configure_tor_hidden_service" /\ ret.ok)
        => StanzaCount(torrc, HiddenServiceDirOf(platform)) >= 1

(***************************************************************************)
(* A manager constructed after an earlier session has started the service  *)
(* and the proxy port has been saved again since (save_port_config stores  *)
(* nginx_port in the configuration file and touches no other file).        *)
(***************************************************************************)
\* the ports the configuration file can hold: the default, or another
\* port that save_port_config accepted after the earlier start
SavedPorts == {NGINX_DEFAULT_PORT, OtherServicePort}

InitPortChanged ==
    /\ platform \in Platforms
    /\ watchdogAvailable \in BOOLEAN
    /\ \E p \in SavedPorts :
         ManagerOver([SessionConfig(platform) EXCEPT !.nginx_port = p],
                     TorStanza(HiddenServiceDirOf(platform), NGINX_DEFAULT_PORT))
    /\ RunnerIdle

SpecPortChanged == InitPortChanged /\ [][Next]_vars

\* the two directives of a stanza of dir that forwards to port
HiddenServiceLines(dir, port) ==
    <<"HiddenServiceDir", " ">> \o dir
    \o <<"\n", "HiddenServicePort", " ", "80", " ", "127.0.0.1:">>
    \o DecimalText(port) \o <<"\n">>

\* C28: after start_service succeeds, the stanza of the service directory
\* forwards to the port the proxy configuration listens on, which is the
\* nginx_port of the configuration (create_nginx_config renders it and
\* stores it back), also when the port was changed since an earlier start
C28_StanzaForwardsToListenPort ==
    (ret.op = "start_service" /\ ret.ok)
        => Contains(torrc, HiddenServiceLines(HiddenServiceDirOf(platform),
                                              config.nginx_port))

\* the daemon processes spawned by the manager that have not exited
LiveDaemons == {p \in DOMAIN procs : procs[p].alive}

\* C29: over non-overlapping start and stop calls at most one daemon
\* process spawned by the manager is alive at any time, and a handle the
\* manager holds is that of the process spawned last
C29_AtMostOneLiveDaemon ==
    /\ Cardinality(LiveDaemons) <= 1
    /\ torProcess # 0 => torProcess = Len(procs)

(***************************************************************************)
(* Overlapping starts.  gui_app.py, start_service (lines 763-798), runs    *)
(* OnionServiceManager.start_service on a new thread at every click; the   *)
(* start button stays enabled until a start has succeeded (lines 653-667), *)
(* and nothing records that a start is in progress.  The steps before      *)
(* start_tor_manual are taken as one step of the thread; start_tor_manual  *)
(* is followed from its guard (lines 720-721) to the assignment of the     *)
(* handle (lines 785-801) and to its return.                               *)
(***************************************************************************)
threadFrame == <<platform, watchdogAvailable, torInstalled, nginxInstalled,
                 runnerVars, nginxConfig, pc, siteArg, orch, ret, statusSnap,
                 statusPc, stepLog, cmdLog, atCall, tcCalls, nEvents>>

AllOk == [at |-> 0, how |-> "ok"]

FirstRaises == [at |-> 1, how |-> "raise"]

ThreadDone(t, r) ==
    startThreads' = [startThreads EXCEPT ![t].pc = "done", ![t].ret = r]

\* gui_app.py, lines 763-798: a directory is selected and the dependencies
\* are installed; the thread is created and started
GuiStartService(t) ==
    /\ pc = "idle"
    /\ startThreads[t].pc = "none"
    /\ startThreads' = [startThreads EXCEPT ![t].pc = "steps"]
    /\ UNCHANGED <<threadFrame, config, torrc, nginxRunning, fileObserver,
                   observers, nObservers, procs, torProcess, bootstrapProgress,
                   onionAddress>>

\* start_service, lines 1109-1127, on the thread: validate_site_directory,
\* create_nginx_config, configure_tor_hidden_service and start_nginx, each
\* one succeeding or failing at its first command
ThreadSteps(t) ==
    /\ startThreads[t].pc = "steps"
    /\ \E e1 \in {AllOk, FirstRaises} :
       \E e2 \in (IF e1 = AllOk /\ HasSitesEnabled(platform)
                  THEN {AllOk, FirstRaises} ELSE {AllOk}) :
       \E o3 \in (IF e1 = AllOk /\ e2 = AllOk /\ HasSitesEnabled(platform)
                  THEN {"ok", "fail"} ELSE {"ok"}) :
         LET dir == HiddenServiceDirOf(platform)
             r1 == CreateNginxConfigResult(platform, "site",
                                           NginxScript(platform, FALSE, FALSE), e1)
             r2 == ConfigureTorResult(platform, torrc, dir, config.nginx_port,
                                      e2, "ok", "ok", "direct", "ok", "ok")
             r3 == StartNginxResult(o3)
         IN  /\ IF e1 = AllOk /\ watchdogAvailable
                THEN /\ nObservers' = nObservers + 1
                     /\ fileObserver' = nObservers + 1
                     /\ observers' = observers \cup {nObservers + 1}
                ELSE UNCHANGED <<nObservers, fileObserver, observers>>
             /\ IF ~r1.ok
                THEN /\ ThreadDone(t, Ret("start_service", FALSE, r1.msg, NoAddr))
                     /\ UNCHANGED <<config, torrc, nginxRunning>>
                ELSE /\ config' = [config EXCEPT !.site_directory = "site",
                                                 !.hidden_service_dir = dir]
                     /\ torrc' = r2.torrc
                     /\ nginxRunning' = (nginxRunning \/ (r2.ok /\ r3.ok))
                     /\ IF ~r2.ok
                        THEN ThreadDone(t, Ret("start_service", FALSE, r2.msg, NoAddr))
                        ELSE IF ~r3.ok
                        THEN ThreadDone(t, Ret("start_service", FALSE,
                                               <<"Failed to start Nginx: ">> \o r3.msg,
                                               NoAddr))
                        ELSE startThreads' = [startThreads EXCEPT ![t].pc = "check"]
    /\ UNCHANGED <<threadFrame, procs, torProcess, bootstrapProgress, onionAddress>>

\* start_tor_manual, lines 720-721, on the thread: the guard reads the
\* handle; with a live process behind it the function returns at once and
\* start_service goes on to its end (lines 1132-1158)
ThreadCheck(t) ==
    /\ startThreads[t].pc = "check"
    /\ IF TorAlreadyRunning
       THEN \E o \in Outcomes :
              LET f == FinishStart(config, platform, "site", onionAddress, o)
              IN  /\ ThreadDone(t, f.ret)
                  /\ config' = f.config
       ELSE /\ startThreads' = [startThreads EXCEPT ![t].pc = "spawn"]
            /\ UNCHANGED config
    /\ UNCHANGED <<threadFrame, torrc, nginxRunning, fileObserver, observers,
                   nObservers, procs, torProcess, bootstrapProgress, onionAddress>>

\* lines 723-807 on the thread: the command is built and verified, the
\* child is spawned and self._tor_process is assigned
ThreadSpawn(t) ==
    /\ startThreads[t].pc = "spawn"
    /\ \E verify \in (IF IsLinux(platform) THEN {"ok", "fail"} ELSE {"ok"}),
          spawn \in {"ok", "notfound"} :
         IF verify = "fail"
         THEN /\ ThreadDone(t, Ret("start_service", FALSE,
                                   <<"Failed to start Tor: ",
                                     "Tor configuration is invalid: ", "stderr">>,
                                   NoAddr))
              /\ UNCHANGED <<procs, torProcess, bootstrapProgress>>
         ELSE IF spawn = "notfound"
         THEN /\ ThreadDone(t, Ret("start_service", FALSE,
                                   <<"Failed to start Tor: ",
                                     "Tor executable not found: ", "tor">>, NoAddr))
              /\ UNCHANGED <<procs, torProcess, bootstrapProgress>>
         ELSE /\ procs' = Append(procs, NewProc)
              /\ torProcess' = Len(procs) + 1
              /\ bootstrapProgress' = 0
              /\ startThreads' = [startThreads EXCEPT ![t].pc = "wait",
                                                      ![t].proc = Len(procs) + 1]
    /\ UNCHANGED <<threadFrame, config, torrc, nginxRunning, fileObserver,
                   observers, nObservers, onionAddress>>

\* lines 866-896 and 1132-1158 on the thread: the wait for the call's own
\* bootstrap_complete returns, and start_service goes on to its end
ThreadWait(t) ==
    /\ startThreads[t].pc = "wait"
    /\ LET pr == procs[startThreads[t].proc]
       IN  \/ /\ pr.complete
              /\ \E o \in Outcomes :
                   LET rd == ReadOnionAddress(platform, config, o)
                       f == FinishStart(config, platform, "site", rd.addr, o)
                   IN  /\ onionAddress' = rd.addr
                       /\ config' = f.config
                       /\ ThreadDone(t, f.ret)
           \/ /\ ~pr.complete
              /\ ThreadDone(t, Ret("start_service", FALSE,
                                   <<"Failed to start Tor: ">>
                                   \o TimeoutMessage(pr.errors, bootstrapProgress),
                                   NoAddr))
              /\ UNCHANGED <<onionAddress, config>>
    /\ UNCHANGED <<threadFrame, torrc, nginxRunning, fileObserver, observers,
                   nObservers, procs, torProcess, bootstrapProgress>>

NextOverlap ==
    \/ ImportModule
    \/ \E t \in Threads : GuiStartService(t)
    \/ \E t \in Threads : ThreadSteps(t)
    \/ \E t \in Threads : ThreadCheck(t)
    \/ \E t \in Threads : ThreadSpawn(t)
    \/ \E t \in Threads : ThreadWait(t)
    \/ \E p \in 1..Len(procs) : MonitorRead(p)
    \/ \E p \in 1..Len(procs) : MonitorApply(p)
    \/ \E p \in 1..Len(procs) : ProcExit(p)

SpecOverlap == Init /\ [][NextOverlap]_vars

\* C30: two overlapping start_service calls never leave two daemons
\* spawned by the manager alive, nor a live daemon that the manager's
\* handle does not refer to
C30_OverlapSpawnsOnce ==
    /\ Cardinality(LiveDaemons) <= 1
    /\ \A p \in LiveDaemons : torProcess = p

\* the start_tor_manual call that spawned process p has returned
RunReturned(p) == ~(pc = "wait" /\ torProcess = p)

\* the reader of process p handles the line it took
ReaderStep(p) == procs[p].mon = "pending" /\ procs'[p].mon # "pending"

\* C31: once the start_tor_manual call of a run has returned, the reader
\* of that run's daemon neither invokes the progress callback nor changes
\* the recorded bootstrap percentage
C31_ReaderSilentAfterReturn ==
    [][\A p \in 1..Len(procs) :
         (RunReturned(p) /\ ReaderStep(p))
            => /\ procs'[p].cb = procs[p].cb
               /\ bootstrapProgress' = bootstrapProgress]_vars

\* C32: after start_service has returned there is no daemon spawned by the
\* manager that is alive behind its handle while the persisted
\* service_running flag is false; in particular a start that returned a
\* failure has left no live daemon
C32_FailedStartLeavesNoDaemon ==
    ret.op = "start_service" => ~(TorAlreadyRunning /\ ~config.service_running)

\* C33: a status dictionary returned after stop_service has returned
\* reports tor_running false and bootstrap_progress 0, whatever the daemon
\* and its reader were doing when stop was called
C33_StatusAfterStopIsReset ==
    (ret.op = "stop_service" /\ statusSnap.taken /\ statusSnap.valid)
        => /\ ~statusSnap.tor_running
           /\ statusSnap.bootstrap_progress = 0

(***************************************************************************)
(* The wait of start_tor_manual over any output of the daemon: lines that  *)
(* match the percent pattern, lines that hold "error", and lines that do   *)
(* both.  The behaviours start where start_service, called on a newly      *)
(* constructed manager on Debian with every command succeeding, has just   *)
(* spawned the daemon and started its reader (line 864).                   *)
(***************************************************************************)
MaxLines == 4

\* a line `Bootstrapped N%: ... error ...`
PctErrLine(n) == [pct |-> n, err |-> TRUE]

BootstrapLines ==
    {PctLine(50), PctLine(100), ErrLine, PctErrLine(50), PctErrLine(100)}

\* the lines the readers have handled so far that left a percentage or an
\* error behind
RECURSIVE LinesHandled(_)
LinesHandled(ps) ==
    IF ps = <<>> THEN 0
    ELSE Len(Head(ps).cb) + Len(Head(ps).errors) + LinesHandled(Tail(ps))

\* line 823: the reader takes the next line, any of BootstrapLines
MonitorReadLine(p) ==
    /\ procs[p].alive
    /\ procs[p].mon = "run"
    /\ LinesHandled(procs) < MaxLines
    /\ \E l \in BootstrapLines :
         procs' = [procs EXCEPT ![p].line = l, ![p].mon = "pending"]
    /\ UNCHANGED <<envVars, config, torrc, nginxRunning, torProcess,
                   bootstrapProgress, onionAddress, fileObserver, observers,
                   nObservers, pc, siteArg, orch, ret, statusSnap, statusPc, stepLog,
                   cmdLog, atCall, tcCalls, nEvents>>

\* the state StartTorManual leaves when the steps before it succeeded
InitBootstrap ==
    /\ platform = "debian"
    /\ watchdogAvailable = TRUE
    /\ torInstalled = TRUE
    /\ nginxInstalled = TRUE
    /\ config = [DefaultConfig EXCEPT
                    !.site_directory = "site",
                    !.hidden_service_dir = HiddenServiceDirOf("debian")]
    /\ torrc = TorStanza(HiddenServiceDirOf("debian"), NGINX_DEFAULT_PORT)
    /\ nginxRunning = TRUE
    /\ torProcess = 1
    /\ bootstrapProgress = 0
    /\ onionAddress = NoAddr
    /\ fileObserver = 1
    /\ observers = {1}
    /\ nObservers = 1
    /\ procs = <<NewProc>>
    /\ pc = "wait"
    /\ siteArg = "site"
    /\ orch = TRUE
    /\ ret = Running
    /\ statusSnap = NoStatus
    /\ statusPc = "idle"
    /\ stepLog = <<<<"create_nginx_config", TRUE>>,
                   <<"configure_tor_hidden_service", TRUE>>,
                   <<"start_nginx", TRUE>>>>
    /\ cmdLog = <<>>
    /\ atCall = [config |-> DefaultConfig, torrc |-> <<>>, nprocs |-> 0,
                 nginxRunning |-> FALSE]
    /\ tcCalls = 1
    /\ nEvents = 1
    /\ RunnerIdle

NextBootstrap ==
    \/ TorWait
    \/ \E p \in 1..Len(procs) : MonitorReadLine(p)
    \/ \E p \in 1..Len(procs) : MonitorApply(p)
    \/ \E p \in 1..Len(procs) : ProcExit(p)

\* bootstrap_complete.wait(timeout=120), line 866, returns when the event
\* is set or when the window has elapsed: the step is taken
SpecBootstrap ==
    InitBootstrap /\ [][NextBootstrap]_vars /\ WF_vars(TorWait)

\* a call that waits for the bootstrap leaves the wait
WaitReturns == (pc = "wait") ~> (pc # "wait")

\* the message of a wait that ends in a timeout
TimeoutMessageCarriesErrors ==
    [][(pc = "wait" /\ pc' # "wait" /\ ~procs[torProcess].complete)
         => LET errors == procs[torProcess].errors
            IN  /\ ~ret'.ok
                /\ ret'.msg =
                     <<"Failed to start Tor: ">> \o
                     (IF errors # <<>>
                      THEN <<"Tor bootstrap timed out. Errors: ">>
                           \o [i \in 1..(IF Len(errors) < 3 THEN Len(errors) ELSE 3)
                                 |-> errors[i]]
                      ELSE <<"Tor bootstrap timed out at ">>
                           \o DecimalText(bootstrapProgress)
                           \o <<"%. Please check your network connection.">>)]_vars

\* C34: start_tor_manual always returns: a call that waits for the
\* bootstrap leaves the wait, whatever the daemon prints and also when it
\* exits or prints nothing; when the wait ends in a timeout, the failure
\* message carries the first error lines accumulated so far, three at most,
\* or without any the percentage recorded last
C34_AlwaysReturns == WaitReturns /\ TimeoutMessageCarriesErrors

\* a wait timed out after four error lines and returned the first three
C34_Witness ==
    /\ BootstrapTimedOut
    /\ Len(procs[torProcess].errors) = 4
    /\ Len(ret.msg) = 5

\* C35: every line the reader handles that holds an error indicator is
\* appended to the error list, in arrival order, whether or not the line
\* also matched the percent pattern, until the list holds the first few
\* (ERRORS_IN_MESSAGE) lines; a line without an indicator leaves the list
\* as it is
C35_ErrorLinesAccumulated ==
    [][\A p \in 1..Len(procs) :
         ReaderStep(p)
            => LET l == procs[p].line
                   errors == procs[p].errors
               IN  procs'[p].errors =
                      IF l.err /\ Len(errors) < ERRORS_IN_MESSAGE
                      THEN Append(errors, LineText(l))
                      ELSE errors]_vars

\* the positions of the command log at which the relocation was issued
Relocations(log) == {i \in 1..Len(log) : log[i][1] = "mv nginx_config"}

\* C36: a call of create_nginx_config issues the privileged relocation of
\* the temporary file at most once, and when the relocation does not
\* succeed it is the last command of the call, the call returns failure and
\* the persisted configuration is not updated
C36_RelocatedOnce ==
    [][pc = "nginx_config"
         => /\ Cardinality(Relocations(cmdLog')) <= 1
            /\ \A i \in Relocations(cmdLog') :
                 cmdLog'[i][2] \in {"fail", "raise"}
                    => /\ i = Len(cmdLog')
                       /\ pc' = "idle"
                       /\ ~ret'.ok
                       /\ config' = config]_vars

\* C37: a create_nginx_config call in which every issued command succeeded
\* returns success, on the platforms with a sites-enabled directory and on
\* those without one, where the symlink step is skipped
C37_SucceedsWithoutSitesEnabled ==
    [][(/\ pc = "nginx_config"
        /\ pc' # "nginx_config"
        /\ \A i \in 1..Len(cmdLog') : cmdLog'[i][2] \in {"ok", "any"})
         => LastOf(stepLog') = <<"create_nginx_config", TRUE>>]_vars

(***************************************************************************)
(* install_tor, install_nginx, install_tor_browser and install_xclip,      *)
(* lines 157-291, over the runner of lines 110-141.                        *)
(***************************************************************************)
Packages == {"tor", "nginx", "tor_browser", "xclip"}

InstallOp(name) ==
    CASE name = "tor" -> "install_tor"
      [] name = "nginx" -> "install_nginx"
      [] name = "tor_browser" -> "install_tor_browser"
      [] name = "xclip" -> "install_xclip"

\* SystemDetector.get_install_command over INSTALL_COMMANDS (constants.py
\* 138-167): the command as tokens, or none
NoCommand == <<>>

InstallCommand(pf, name) ==
    IF pf = "debian"
    THEN <<"sudo", "-S", "sh", "-c", "apt update && apt install -y", name>>
    ELSE IF pf = "redhat"
    THEN IF name = "tor_browser"
         THEN <<"flatpak", "install", "-y", "torbrowser-launcher">>
         ELSE <<"sudo", "-S", "dnf", "install", "-y", name>>
    ELSE IF name = "tor_browser" THEN NoCommand
    ELSE <<"pkg", "update", "&&", "pkg", "install", "-y", name>>

InstRes(ok, msg, flag) == [ok |-> ok, msg |-> msg, flag |-> flag]

\* an installation that records the package as installed whatever the exit
InstallResultFlagAlways(name, cmd, already, result) ==
    IF already THEN InstRes(TRUE, <<name, " is already installed.">>, FALSE)
    ELSE IF cmd = NoCommand
    THEN InstRes(FALSE, <<"Installation command not available: ", name>>, FALSE)
    ELSE InstRes(result = "ok", <<name, " installed successfully!">>, TRUE)

\* one install function: already is is_<name>_installed(), result is how
\* the runner's call ended.  flag says that set_service_installed(name,
\* True) was called
InstallResult(name, cmd, already, result) ==
    IF already THEN InstRes(TRUE, <<name, " is already installed.">>, FALSE)
    ELSE IF cmd = NoCommand
    THEN InstRes(FALSE, <<"Installation command not available: ", name>>, FALSE)
    ELSE IF result = "ok"
    THEN InstRes(TRUE, <<name, " installed successfully!">>, TRUE)
    ELSE IF result = "fail"
    THEN InstRes(FALSE, <<"Failed to install ", name, ": ", "stderr">>, FALSE)
    ELSE IF result = "timeout"
    THEN InstRes(FALSE, <<"Installation timed out. Please try manually.">>, FALSE)
    ELSE IF result = "no_password"
    THEN InstRes(FALSE, <<"Error: ", "Sudo password not set for GUI mode">>, FALSE)
    ELSE InstRes(FALSE, <<"Error: ", "exception">>, FALSE)

\* what the install function hands to the logger
InstallLog(name, cmd, res) ==
    {<<"Installing ", name, ": ">> \o cmd}
    \cup (IF res.msg[1] = "Installation timed out. Please try manually."
          THEN {} ELSE {res.msg})

Install(name) ==
    /\ pc = "idle"
    /\ nEvents < MaxEvents
    /\ nEvents' = nEvents + 1
    /\ LET cmd == InstallCommand(platform, name)
       IN  \E already \in BOOLEAN :
           \E out \in (IF already \/ cmd = NoCommand THEN {"ok"}
                       ELSE Outcomes \cup {"timeout"}) :
           \E typed \in (IF /\ ~already
                            /\ cmd # NoCommand
                            /\ NeedsElevation(cmd)
                            /\ ~elevated
                            /\ ~isGui
                            /\ sudoPassword = NoPassword
                         THEN Passwords ELSE {NoPassword}) :
             LET issued == ~already /\ cmd # NoCommand
                 r == RunPrivilegedResult(cmd, elevated, isGui, sudoPassword, typed, out)
                 res == InstallResult(name, cmd, already, r.result)
             IN  /\ ret' = Ret(InstallOp(name), res.ok, res.msg, NoAddr)
                 /\ cmdLog' = IF issued THEN <<<<InstallOp(name), r.result>>>> ELSE <<>>
                 /\ runLog' = IF issued
                              THEN Append(runLog,
                                          [by |-> InstallOp(name), cmd |-> r.cmd,
                                           executed |-> r.executed, runs |-> r.runs,
                                           returned |-> [ok |-> res.ok, msg |-> res.msg],
                                           stdin |-> r.stdin, result |-> r.result])
                              ELSE runLog
                 /\ sudoPassword' = IF issued THEN r.password ELSE sudoPassword
                 /\ logFile' = IF issued THEN logFile \cup InstallLog(name, cmd, res)
                               ELSE logFile
                 /\ config' = IF res.flag
                              THEN [config EXCEPT !.services = @ \cup {name}]
                              ELSE config
    /\ atCall' = [config |-> config, torrc |-> torrc, nprocs |-> Len(procs),
                  nginxRunning |-> nginxRunning]
    /\ stepLog' = <<>>
    /\ statusSnap' = NoStatus
    /\ torInstalled' = TRUE
    /\ nginxInstalled' = TRUE
    /\ siteArg' = NoDir
    /\ pc' = "idle"
    /\ UNCHANGED <<platform, watchdogAvailable, isGui, elevated, nginxConfig,
                   startThreads, torrc, nginxRunning, torProcess,
                   bootstrapProgress, onionAddress, fileObserver, observers,
                   nObservers, procs, orch, tcCalls, statusPc>>

NextInstall ==
    \/ ImportModule
    \/ SetSudoPassword
    \/ \E name \in Packages : Install(name)

SpecInstall == InitRunner /\ [][NextInstall]_vars

\* C38: an install operation that finds the dependency installed issues no
\* command; the persisted '<name>_installed' flag is set only by the
\* operation of that package and only when its command exited with code 0;
\* the operation returns a result with a message and does not raise, also
\* when the command timed out or the credential was missing, and then the
\* result is a failure
C38_InstallReturnsAndFlags ==
    \A name \in Packages :
        ret.op = InstallOp(name) =>
            /\ ret.msg # <<>>
            /\ ret.msg # <<"raised">>
            /\ (Len(ret.msg) = 2 /\ ret.msg[2] = " is already installed.")
                  => cmdLog = <<>> /\ ret.ok /\ config = atCall.config
            /\ config.services # atCall.config.services
                  => /\ config.services = atCall.config.services \cup {name}
                     /\ cmdLog = <<<<ret.op, "ok">>>>
                     /\ ret.ok
            /\ (cmdLog # <<>> /\ cmdLog[1][2] # "ok") => ~ret.ok
            /\ ret.ok => (cmdLog = <<>> \/ name \in config.services)

\* an installation in the GUI without a credential returned a failure, and
\* another one before it had set the flag of its package
C38_Witness ==
    /\ ret.op = "install_nginx"
    /\ ~ret.ok
    /\ cmdLog = <<<<"install_nginx", "no_password">>>>
    /\ config.services = {"tor_browser"}

============================================================================
